---- MODULE Spec2Model ----
(***************************************************************************)
(* The entity core of src/entity.rs: the EntityManager (directory,        *)
(* storages, command queues, tick protocol), the EntityView operations    *)
(* and the spawn requests of src/archetype.rs.                            *)
(*                                                                         *)
(* Coordinates are kept in units of 1/Sub of a grid cell, durations in    *)
(* whole milliseconds.                                                     *)
(***************************************************************************)
EXTENDS Integers, Sequences, FiniteSets, TLC

\* ------------------------------------------------------------------ bounds
MaxCalls == 4       \* Spec: calls made on the manager and its views per run
TickMaxCalls == 5   \* TickSpec: the same, key and pointer events included
CollideMaxCalls == 5  \* CollideSpec: spawns, ticks and calls of tick behaviours
TimeMaxCalls == 6   \* TimeSpec: calls made on one Threshold and one Cooldown
Sub == 2            \* sub-cell resolution of a coordinate
SpawnMaxCalls == 3  \* SpawnSpec: spawns, kills and set_position calls per run
FruitMaxCalls == 5  \* FruitSpec: constructors, ticks, draws and tick behaviours
MaxFruits == 1      \* FruitSpec: fruits alive at one time
IntBits == 3        \* width of the integer counters
MaxResolved == 8    \* pairs of one collision loop that the history keeps
InputMaxCalls == 7  \* InputSpec: key and pointer events, spawns, kills, ticks, reads
PropertyMaxCalls == 6  \* PropertySpec: spawns and calls on the property bags
BorrowMaxCalls == 4  \* BorrowSpec: spawns and calls made on views
TimerMaxCalls == 5   \* TimerSpec: spawns and access_timer calls
TutMaxCalls == 6     \* TutSpec: move signals and calls of the tutorial's logic
RespawnMaxCalls == 4 \* RespawnSpec: constructors, moves of the head and ticks
HallMaxCalls == 7    \* HallSpec: the snake, the room, open_hallway, ticks, steps of the head

\* ----------------------------------------------------------------- helpers
Range(s) == {s[i] : i \in DOMAIN s}

Insert(f, k, v) == [x \in (DOMAIN f) \cup {k} |-> IF x = k THEN v ELSE f[x]]

Remove(f, k) == [x \in (DOMAIN f) \ {k} |-> f[x]]

RemoveAt(s, i) == [j \in 1..(Len(s) - 1) |-> IF j < i THEN s[j] ELSE s[j + 1]]

EmptyMap == << >>

\* ------------------------------------------------------------ enumerations
Entities ==
  {"Basic", "Background", "Wall", "SnakeHead", "SnakeBody", "Fruit", "_Enemy",
   "Fireball", "Trigger", "Swoop", "Text", "Logic"}

Components ==
  {"Position", "Direction", "Collider", "Input", "BodyLength", "SelfDestruct",
   "Scale", "Timer", "Spawner", "Animation", "Color", "Speed", "Properties",
   "Sound"}

\* ---------------------------------------------------------------- defaults
Vec3Default == [x |-> 0, y |-> 0, z |-> 0]

Vec2Default == [x |-> 0, y |-> 0]

DirectionDefault == "None"

ScaleDiagonal(n) == [x |-> n, y |-> n]

AnimationDefault == "Idle"

ColorDefault == "None"

SpeedDefault == 0

\* a bug: a new Threshold waits for 1 ms
ThresholdDefault_waiting == [acc |-> 0, threshold |-> 1]

ThresholdDefault == [acc |-> 0, threshold |-> 0]

InputDefault == [keys |-> << >>, mouse_pos |-> Vec2Default]

\* ------------------------------------------------------------- time.rs
Threshold_set_threshold(t, threshold) == [t EXCEPT !.threshold = threshold]

Threshold_new(threshold) == Threshold_set_threshold(ThresholdDefault, threshold)

\* variant: fires as soon as the accumulator reaches the threshold
Threshold_tick_at_threshold(t, dt) ==
  LET acc == t.acc + dt IN
  IF acc >= t.threshold
    THEN [t |-> [t EXCEPT !.acc = acc - t.threshold], fired |-> TRUE]
    ELSE [t |-> [t EXCEPT !.acc = acc], fired |-> FALSE]

\* variant: a firing drops the time accumulated beyond the threshold
Threshold_tick_restart(t, dt) ==
  LET acc == t.acc + dt IN
  IF acc > t.threshold
    THEN [t |-> [t EXCEPT !.acc = 0], fired |-> TRUE]
    ELSE [t |-> [t EXCEPT !.acc = acc], fired |-> FALSE]

\* variant: one call takes off every whole period that has elapsed
Threshold_tick_all_periods(t, dt) ==
  LET acc == t.acc + dt IN
  IF acc > t.threshold /\ t.threshold > 0
    THEN [t |-> [t EXCEPT !.acc = acc - ((acc - 1) \div t.threshold) * t.threshold],
          fired |-> TRUE]
    ELSE IF acc > t.threshold
      THEN [t |-> [t EXCEPT !.acc = acc], fired |-> TRUE]
      ELSE [t |-> [t EXCEPT !.acc = acc], fired |-> FALSE]

Threshold_tick(t, dt) ==
  LET acc == t.acc + dt IN
  IF acc > t.threshold
    THEN [t |-> [t EXCEPT !.acc = acc - t.threshold], fired |-> TRUE]
    ELSE [t |-> [t EXCEPT !.acc = acc], fired |-> FALSE]

Threshold_reset(t) == [t EXCEPT !.acc = 0]

\* ------------------------------------------- the tutorial room's controls
\* Duration::MAX, in milliseconds: written as the greatest time the model can
\* hold, which no accumulated time of a run comes near
DURATION_MAX == 2147483647

\* the time the hallway waits after the first move, in milliseconds
HallDelay == 3000

\* the state the closure of tut_controls captures: its threshold and flag, the
\* messages waiting on the channel it reads, and the messages it has sent on
\* the two channels it writes
TutControls ==
  [threshold |-> Threshold_new(DURATION_MAX), moved |-> FALSE,
   snek_move_rx |-> 0, tx_glitch |-> 0, tx_hall |-> 0]

\* variant: arming the threshold keeps the time accumulated before the move
tut_controls_on_tick_no_reset(t, dt) ==
  LET seen == ~t.moved /\ t.snek_move_rx > 0
      t1 == IF seen
              THEN [t EXCEPT !.snek_move_rx = @ - 1, !.moved = TRUE,
                             !.tx_glitch = @ + 1,
                             !.threshold = Threshold_set_threshold(@, HallDelay)]
              ELSE t
      r == Threshold_tick(t1.threshold, dt)
  IN IF r.fired
       THEN [t1 EXCEPT !.tx_hall = @ + 1,
                       !.threshold = Threshold_set_threshold(r.t, DURATION_MAX)]
       ELSE [t1 EXCEPT !.threshold = r.t]

\* the closure tut_controls gives to add_logic, called with the dt of a tick
tut_controls_on_tick(t, dt) ==
  LET seen == ~t.moved /\ t.snek_move_rx > 0
      t1 == IF seen
              THEN [t EXCEPT !.snek_move_rx = @ - 1, !.moved = TRUE,
                             !.tx_glitch = @ + 1,
                             !.threshold = Threshold_reset(
                                 Threshold_set_threshold(@, HallDelay))]
              ELSE t
      r == Threshold_tick(t1.threshold, dt)
  IN IF r.fired
       THEN [t1 EXCEPT !.tx_hall = @ + 1,
                       !.threshold = Threshold_set_threshold(r.t, DURATION_MAX)]
       ELSE [t1 EXCEPT !.threshold = r.t]

CooldownDefault == [acc |-> 0, cooldown |-> 0]

Cooldown_set_cooldown(c, cooldown) == [c EXCEPT !.cooldown = cooldown]

Cooldown_new(cooldown) == Cooldown_set_cooldown(CooldownDefault, cooldown)

\* Duration::saturating_sub
saturating_sub(a, b) == IF b > a THEN 0 ELSE a - b

\* variant: a subtraction that leaves the value alone when it would go below 0
Cooldown_tick_checked(c, dt) ==
  [c EXCEPT !.acc = IF dt > c.acc THEN c.acc ELSE c.acc - dt]

Cooldown_tick(c, dt) == [c EXCEPT !.acc = saturating_sub(c.acc, dt)]

Cooldown_is_cooling_down(c) == ~(c.acc = 0)

Cooldown_reset(c) == [c EXCEPT !.acc = 0]

Cooldown_cool_down(c) == [c EXCEPT !.acc = c.cooldown]

\* 1.0 - acc / cooldown, as the exact fraction num / den (cooldown > 0); the
\* f32 result is 1.0 whenever acc is 0: 0.0 / cooldown is 0.0 and 1.0 - 0.0 is 1.0
Cooldown_progress(c) == [num |-> c.cooldown - c.acc, den |-> c.cooldown]

\* ------------------------------------------------------------- math.rs
\* Vec2::from(Vec3) followed by Vec2::floor: the grid cell of a position
Vec2Floor(p) == [x |-> p.x \div Sub, y |-> p.y \div Sub]

\* ------------------------------------------------------------- Storages
StoragesNew ==
  [spawn_requests |-> << >>,
   collisions |-> << >>,
   positions |-> EmptyMap,
   directions |-> EmptyMap,
   colliders |-> EmptyMap,
   keyboards |-> EmptyMap,
   body_lengths |-> EmptyMap,
   self_destructs |-> EmptyMap,
   scales |-> EmptyMap,
   timers |-> EmptyMap,
   spawners |-> EmptyMap,
   animations |-> EmptyMap,
   colors |-> EmptyMap,
   speeds |-> EmptyMap,
   properties |-> EmptyMap,
   sounds |-> EmptyMap]

\* the component tables of Storages, by component kind
Table(s, c) ==
  CASE c = "Position" -> s.positions
    [] c = "Direction" -> s.directions
    [] c = "Collider" -> s.colliders
    [] c = "Input" -> s.keyboards
    [] c = "BodyLength" -> s.body_lengths
    [] c = "SelfDestruct" -> s.self_destructs
    [] c = "Scale" -> s.scales
    [] c = "Timer" -> s.timers
    [] c = "Spawner" -> s.spawners
    [] c = "Animation" -> s.animations
    [] c = "Color" -> s.colors
    [] c = "Speed" -> s.speeds
    [] c = "Properties" -> s.properties
    [] c = "Sound" -> s.sounds

is_collider(s, id) == id \in DOMAIN s.colliders

\* ids of the other tables' entries that set_position reports, in the
\* iteration order ord of the positions table (a HashMap: any order)
Hits(s, entity, position, ord) ==
  SelectSeq(ord, LAMBDA other :
      /\ other \in DOMAIN s.positions
      /\ is_collider(s, other)
      /\ Vec2Floor(position) = Vec2Floor(s.positions[other]))

\* variant: the position is stored as the corner of its grid cell
Storages_set_position_floored(s, entity, position, ord) ==
  LET hits == IF is_collider(s, entity) THEN Hits(s, entity, position, ord) ELSE << >>
      sent == [i \in 1..Len(hits) |-> <<entity, hits[i]>>]
      cell == Vec2Floor(position)
  IN [s EXCEPT !.collisions = s.collisions \o sent,
               !.positions = Insert(s.positions, entity,
                                    [x |-> cell.x * Sub, y |-> cell.y * Sub, z |-> position.z])]

Storages_set_position(s, entity, position, ord) ==
  LET hits == IF is_collider(s, entity) THEN Hits(s, entity, position, ord) ELSE << >>
      sent == [i \in 1..Len(hits) |-> <<entity, hits[i]>>]
  IN [s EXCEPT !.collisions = s.collisions \o sent,
               !.positions = Insert(s.positions, entity, position)]

Storages_set_direction(s, entity, direction) ==
  [s EXCEPT !.directions = Insert(s.directions, entity, direction)]

Storages_add_collider(s, entity) ==
  [s EXCEPT !.colliders = Insert(s.colliders, entity, "Collider")]

Storages_add_keyboard(s, entity) ==
  [s EXCEPT !.keyboards = Insert(s.keyboards, entity, InputDefault)]

Storages_set_body_length(s, entity, v) ==
  [s EXCEPT !.body_lengths = Insert(s.body_lengths, entity, v)]

Storages_set_self_destruct(s, entity, v) ==
  [s EXCEPT !.self_destructs = Insert(s.self_destructs, entity, v)]

Storages_set_scale(s, entity, v) ==
  [s EXCEPT !.scales = Insert(s.scales, entity, v)]

Storages_set_animation(s, entity, v) ==
  [s EXCEPT !.animations = Insert(s.animations, entity, v)]

Storages_set_color(s, entity, v) ==
  [s EXCEPT !.colors = Insert(s.colors, entity, v)]

Storages_set_speed(s, entity, v) ==
  [s EXCEPT !.speeds = Insert(s.speeds, entity, v)]

\* variant: an entity without a property table is given one
Storages_new_property_or_create(s, entity, name, value) ==
  LET bag == IF entity \in DOMAIN s.properties THEN s.properties[entity] ELSE EmptyMap
  IN [s EXCEPT !.properties = Insert(s.properties, entity, Insert(bag, name, value))]

\* a bug: a bound name keeps its binding
Storages_new_property_keeps_bound(s, entity, name, value) ==
  IF entity \in DOMAIN s.properties /\ name \notin DOMAIN s.properties[entity]
    THEN [s EXCEPT !.properties[entity] = Insert(s.properties[entity], name, value)]
    ELSE s

Storages_new_property(s, entity, name, value) ==
  IF entity \in DOMAIN s.properties
    THEN [s EXCEPT !.properties[entity] = Insert(s.properties[entity], name, value)]
    ELSE s

\* a bug: the whole bag is emptied
Storages_remove_property_clears(s, entity, name) ==
  IF entity \in DOMAIN s.properties /\ name \in DOMAIN s.properties[entity]
    THEN [s EXCEPT !.properties[entity] = EmptyMap]
    ELSE s

Storages_remove_property(s, entity, name) ==
  IF entity \in DOMAIN s.properties
    THEN [s EXCEPT !.properties[entity] = Remove(s.properties[entity], name)]
    ELSE s

\* a bug: the key goes to one keyboard only, that of the least id
Storages_key_pressed_first(s, key) ==
  [s EXCEPT !.keyboards =
     [e \in DOMAIN s.keyboards |->
        IF \A o \in DOMAIN s.keyboards : e <= o
          THEN [s.keyboards[e] EXCEPT !.keys = Append(s.keyboards[e].keys, key)]
          ELSE s.keyboards[e]]]

Storages_key_pressed(s, key) ==
  [s EXCEPT !.keyboards =
     [e \in DOMAIN s.keyboards |->
        [s.keyboards[e] EXCEPT !.keys = Append(s.keyboards[e].keys, key)]]]

Storages_mouse_moved(s, mouse) ==
  [s EXCEPT !.keyboards =
     [e \in DOMAIN s.keyboards |-> [s.keyboards[e] EXCEPT !.mouse_pos = mouse]]]

\* a bug: Scale starts from Scale::default() instead of the unit scale
Storages_add_component_zero_scale(s, entity, component, ord) ==
  CASE component = "Position" -> Storages_set_position(s, entity, Vec3Default, ord)
    [] component = "Direction" -> Storages_set_direction(s, entity, DirectionDefault)
    [] component = "Collider" -> Storages_add_collider(s, entity)
    [] component = "Input" -> Storages_add_keyboard(s, entity)
    [] component = "BodyLength" -> Storages_set_body_length(s, entity, 0)
    [] component = "SelfDestruct" -> Storages_set_self_destruct(s, entity, 0)
    [] component = "Scale" -> Storages_set_scale(s, entity, ScaleDiagonal(0))
    [] component = "Timer" -> [s EXCEPT !.timers = Insert(s.timers, entity, ThresholdDefault)]
    [] component = "Spawner" -> [s EXCEPT !.spawners = Insert(s.spawners, entity, "unit")]
    [] component = "Animation" -> Storages_set_animation(s, entity, AnimationDefault)
    [] component = "Color" -> Storages_set_color(s, entity, ColorDefault)
    [] component = "Speed" -> Storages_set_speed(s, entity, SpeedDefault)
    [] component = "Properties" -> [s EXCEPT !.properties = Insert(s.properties, entity, EmptyMap)]
    [] component = "Sound" -> [s EXCEPT !.sounds = Insert(s.sounds, entity, "player")]

\* variant: the default Position is stored without the collision scan
Storages_add_component_unscanned(s, entity, component, ord) ==
  IF component = "Position"
    THEN [s EXCEPT !.positions = Insert(s.positions, entity, Vec3Default)]
  ELSE IF component = "Scale"
    THEN Storages_set_scale(s, entity, ScaleDiagonal(1))
  ELSE Storages_add_component_zero_scale(s, entity, component, ord)

Storages_add_component(s, entity, component, ord) ==
  CASE component = "Position" -> Storages_set_position(s, entity, Vec3Default, ord)
    [] component = "Direction" -> Storages_set_direction(s, entity, DirectionDefault)
    [] component = "Collider" -> Storages_add_collider(s, entity)
    [] component = "Input" -> Storages_add_keyboard(s, entity)
    [] component = "BodyLength" -> Storages_set_body_length(s, entity, 0)
    [] component = "SelfDestruct" -> Storages_set_self_destruct(s, entity, 0)
    [] component = "Scale" -> Storages_set_scale(s, entity, ScaleDiagonal(1))
    [] component = "Timer" -> [s EXCEPT !.timers = Insert(s.timers, entity, ThresholdDefault)]
    [] component = "Spawner" -> [s EXCEPT !.spawners = Insert(s.spawners, entity, "unit")]
    [] component = "Animation" -> Storages_set_animation(s, entity, AnimationDefault)
    [] component = "Color" -> Storages_set_color(s, entity, ColorDefault)
    [] component = "Speed" -> Storages_set_speed(s, entity, SpeedDefault)
    [] component = "Properties" -> [s EXCEPT !.properties = Insert(s.properties, entity, EmptyMap)]
    [] component = "Sound" -> [s EXCEPT !.sounds = Insert(s.sounds, entity, "player")]

\* a bug: kill forgets the property bag
Storages_kill_keeps_properties(s, entity) ==
  [s EXCEPT !.positions = Remove(s.positions, entity),
            !.directions = Remove(s.directions, entity),
            !.colliders = Remove(s.colliders, entity),
            !.keyboards = Remove(s.keyboards, entity),
            !.body_lengths = Remove(s.body_lengths, entity),
            !.self_destructs = Remove(s.self_destructs, entity),
            !.scales = Remove(s.scales, entity),
            !.timers = Remove(s.timers, entity),
            !.spawners = Remove(s.spawners, entity),
            !.animations = Remove(s.animations, entity),
            !.colors = Remove(s.colors, entity),
            !.speeds = Remove(s.speeds, entity),
            !.sounds = Remove(s.sounds, entity)]

Storages_kill(s, entity) ==
  [s EXCEPT !.positions = Remove(s.positions, entity),
            !.directions = Remove(s.directions, entity),
            !.colliders = Remove(s.colliders, entity),
            !.keyboards = Remove(s.keyboards, entity),
            !.body_lengths = Remove(s.body_lengths, entity),
            !.self_destructs = Remove(s.self_destructs, entity),
            !.scales = Remove(s.scales, entity),
            !.timers = Remove(s.timers, entity),
            !.spawners = Remove(s.spawners, entity),
            !.animations = Remove(s.animations, entity),
            !.colors = Remove(s.colors, entity),
            !.speeds = Remove(s.speeds, entity),
            !.properties = Remove(s.properties, entity),
            !.sounds = Remove(s.sounds, entity)]

\* Option<T>
None == [some |-> FALSE]

Some(v) == [some |-> TRUE, val |-> v]

Lookup(f, k) == IF k \in DOMAIN f THEN Some(f[k]) ELSE None

Storages_get_property(s, entity, name) ==
  IF entity \in DOMAIN s.properties
    THEN Lookup(s.properties[entity], name)
    ELSE None

Storages_access_spawner(s, entity) == entity \in DOMAIN s.spawners

\* ------------------------------------------------------------- EntityManager
EntityManagerNew ==
  [tracker |-> 0,
   entities |-> << >>,
   types |-> << >>,
   keystrokes |-> << >>,
   mouse_movements |-> << >>,
   dying |-> << >>,
   borrow |-> 0,
   channels |-> << >>,
   storage |-> StoragesNew]

\* mpsc::channel(): the channels made by the callers of the manager are kept
\* with it, each as the number of messages sent on it so far; a Sender or a
\* Receiver is the index of its channel
mpsc_channel(m) ==
  [man |-> [m EXCEPT !.channels = Append(m.channels, 0)], id |-> Len(m.channels) + 1]

\* tx.send(())
Sender_send_unit(m, tx) == [m EXCEPT !.channels[tx] = @ + 1]

\* slice::binary_search on the directory: the index found, 0 when absent
RECURSIVE BSearch(_, _, _, _)
BSearch(s, x, lo, hi) ==
  IF lo >= hi THEN 0
  ELSE LET mid == lo + ((hi - lo) \div 2) IN
       IF s[mid] = x THEN mid
       ELSE IF s[mid] < x THEN BSearch(s, x, mid + 1, hi)
       ELSE BSearch(s, x, lo, mid)

binary_search(s, x) == BSearch(s, x, 1, Len(s) + 1)

RECURSIVE AddComponents(_, _, _, _)
AddComponents(s, id, components, ord) ==
  IF components = << >> THEN s
  ELSE AddComponents(Storages_add_component(s, id, Head(components), ord),
                     id, Tail(components), ord)

\* a bug: the id is taken from the number of live entities
EntityManager_spawn_reuse(m, type_, components, ord) ==
  LET id == Len(m.entities) IN
  [man |-> [m EXCEPT !.tracker = m.tracker + 1,
                     !.entities = Append(m.entities, id),
                     !.types = Append(m.types, type_),
                     !.storage = AddComponents(m.storage, id, components, ord)],
   id |-> id]

\* a bug: the new id is put at the front of the directory
EntityManager_spawn_front(m, type_, components, ord) ==
  LET id == m.tracker IN
  [man |-> [m EXCEPT !.tracker = m.tracker + 1,
                     !.entities = <<id>> \o m.entities,
                     !.types = <<type_>> \o m.types,
                     !.storage = AddComponents(m.storage, id, components, ord)],
   id |-> id]

\* spawn: the manager afterwards and the id returned
EntityManager_spawn(m, type_, components, ord) ==
  LET id == m.tracker IN
  [man |-> [m EXCEPT !.tracker = m.tracker + 1,
                     !.entities = Append(m.entities, id),
                     !.types = Append(m.types, type_),
                     !.storage = IF m.borrow = 0
                                   THEN AddComponents(m.storage, id, components, ord)
                                   ELSE m.storage],
   id |-> id]

\* a bug: kill removes the entry at the place binary_search reports, found or not
EntityManager_kill_at_insertion_point(m, entity) ==
  LET index == Cardinality({i \in 1..Len(m.entities) : m.entities[i] < entity}) + 1 IN
  IF index <= Len(m.entities)
    THEN [m EXCEPT !.entities = RemoveAt(m.entities, index),
                   !.types = RemoveAt(m.types, index),
                   !.storage = Storages_kill(m.storage, m.entities[index])]
    ELSE m

\* a bug: kill removes the directory entry and leaves the storages
EntityManager_kill_directory_only(m, entity) ==
  LET index == binary_search(m.entities, entity) IN
  IF index # 0
    THEN [m EXCEPT !.entities = RemoveAt(m.entities, index),
                   !.types = RemoveAt(m.types, index)]
    ELSE m

\* a bug: kill removes the id from the directory and leaves the type list
EntityManager_kill_keeps_type(m, entity) ==
  LET index == binary_search(m.entities, entity) IN
  IF index # 0
    THEN [m EXCEPT !.entities = RemoveAt(m.entities, index),
                   !.storage = Storages_kill(m.storage, entity)]
    ELSE m

EntityManager_kill(m, entity) ==
  LET index == binary_search(m.entities, entity) IN
  IF index # 0
    THEN [m EXCEPT !.entities = RemoveAt(m.entities, index),
                   !.types = RemoveAt(m.types, index),
                   !.storage = IF m.borrow = 0
                                 THEN Storages_kill(m.storage, entity)
                                 ELSE m.storage]
    ELSE m

\* view(entity): Some(EntityView {id, type_}) or None
EntityManager_view(m, entity) ==
  LET index == binary_search(m.entities, entity) IN
  IF index # 0 THEN Some([id |-> entity, type_ |-> m.types[index]]) ELSE None

\* ------------------------------------------------------------- faults
NoFault == [kind |-> "none"]

MissingComponent(type_, component) ==
  [kind |-> "MissingComponent", tag |-> type_, component |-> component]

\* .expect("entity should have specified property")
MissingProperty == [kind |-> "MissingProperty"]

\* .expect("property should have matching type")
PropertyTypeMismatch == [kind |-> "PropertyTypeMismatch"]

\* RefCell::borrow and borrow_mut on storages that are mutably borrowed
AlreadyBorrowed == [kind |-> "AlreadyBorrowed"]

\* result of a call: the manager afterwards, the panic raised (if any), the value
Done(m, ret) == [man |-> m, fault |-> NoFault, ret |-> ret]

Panic(m, f) == [man |-> m, fault |-> f, ret |-> None]

\* ------------------------------------------------------------- EntityView
EntityView_unwrap(m, v, t, component) ==
  IF t.some THEN Done(m, t.val) ELSE Panic(m, MissingComponent(v.type_, component))

\* a bug: the view kills at once instead of queueing the id
EntityView_kill_at_once(m, v) == Done(EntityManager_kill(m, v.id), None)

EntityView_kill(m, v) == Done([m EXCEPT !.dying = Append(m.dying, v.id)], None)

EntityView_which(v) == v.type_

EntityView_get_sound(m, v) ==
  EntityView_unwrap(m, v, Lookup(m.storage.sounds, v.id), "Sound")

EntityView_new_property(m, v, name, value) ==
  Done([m EXCEPT !.storage = Storages_new_property(m.storage, v.id, name, value)], None)

EntityView_remove_property(m, v, name) ==
  Done([m EXCEPT !.storage = Storages_remove_property(m.storage, v.id, name)], None)

EntityView_has_property(m, v, name) ==
  Done(m, Storages_get_property(m.storage, v.id, name).some)

\* the integers of the counters (score and respawns are i32, the body length
\* is i16), kept IntBits wide
IntMin == -(2 ^ (IntBits - 1))

IntMax == 2 ^ (IntBits - 1) - 1

\* a + b without overflow checks (the release profile): the sum wraps
wrapping_add(a, b) == ((a + b - IntMin) % (2 ^ IntBits)) + IntMin

\* a + b leaves the range: with overflow checks (the debug profile) a panic
overflows(a, b) == a + b < IntMin \/ a + b > IntMax

\* the callbacks f passed to with_property and with_mut_property, as data:
\* the property afterwards and the value returned
PropertyFn(prop, f) ==
  CASE f.fn = "clone" -> [prop |-> prop, ret |-> Some(prop.val)]
    [] f.fn = "assign" -> [prop |-> [prop EXCEPT !.val = f.value], ret |-> None]
    [] f.fn = "add" -> [prop |-> [prop EXCEPT !.val = wrapping_add(prop.val, f.n)],
                        ret |-> None]

\* variant: the value is handed to the callback whatever its type
EntityView_with_property_unchecked(m, v, name, ty, f) ==
  LET prop == Storages_get_property(m.storage, v.id, name) IN
  IF ~prop.some THEN Panic(m, MissingProperty)
  ELSE Done(m, PropertyFn(prop.val, f).ret)

\* with_property::<P, R>(name, f), ty standing for P
EntityView_with_property(m, v, name, ty, f) ==
  LET prop == Storages_get_property(m.storage, v.id, name) IN
  IF ~prop.some THEN Panic(m, MissingProperty)
  ELSE IF prop.val.ty # ty THEN Panic(m, PropertyTypeMismatch)
  ELSE Done(m, PropertyFn(prop.val, f).ret)

\* with_mut_property::<P, R>(name, f), ty standing for P
EntityView_with_mut_property(m, v, name, ty, f) ==
  LET prop == Storages_get_property(m.storage, v.id, name) IN
  IF ~prop.some THEN Panic(m, MissingProperty)
  ELSE IF prop.val.ty # ty THEN Panic(m, PropertyTypeMismatch)
  ELSE LET r == PropertyFn(prop.val, f) IN
       Done([m EXCEPT !.storage.properties[v.id][name] = r.prop], r.ret)

EntityView_get_property(m, v, name, ty) ==
  EntityView_with_property(m, v, name, ty, [fn |-> "clone"])

EntityView_set_property(m, v, name, ty, value) ==
  EntityView_with_mut_property(m, v, name, ty, [fn |-> "assign", value |-> value])

EntityView_get_position(m, v) ==
  EntityView_unwrap(m, v, Lookup(m.storage.positions, v.id), "Position")

EntityView_set_position(m, v, position, ord) ==
  Done([m EXCEPT !.storage = Storages_set_position(m.storage, v.id, position, ord)], None)

EntityView_get_direction(m, v) ==
  EntityView_unwrap(m, v, Lookup(m.storage.directions, v.id), "Direction")

EntityView_set_direction(m, v, direction) ==
  Done([m EXCEPT !.storage = Storages_set_direction(m.storage, v.id, direction)], None)

EntityView_get_body_length(m, v) ==
  EntityView_unwrap(m, v, Lookup(m.storage.body_lengths, v.id), "BodyLength")

EntityView_set_body_length(m, v, n) ==
  Done([m EXCEPT !.storage = Storages_set_body_length(m.storage, v.id, n)], None)

EntityView_get_self_destruct(m, v) ==
  EntityView_unwrap(m, v, Lookup(m.storage.self_destructs, v.id), "SelfDestruct")

EntityView_set_self_destruct(m, v, n) ==
  Done([m EXCEPT !.storage = Storages_set_self_destruct(m.storage, v.id, n)], None)

EntityView_get_scale(m, v) ==
  EntityView_unwrap(m, v, Lookup(m.storage.scales, v.id), "Scale")

EntityView_set_scale(m, v, scale) ==
  Done([m EXCEPT !.storage = Storages_set_scale(m.storage, v.id, scale)], None)

\* Input::get_key: try_recv on the entity's own key channel
EntityView_get_key(m, v) ==
  IF v.id \in DOMAIN m.storage.keyboards
    THEN LET kb == m.storage.keyboards[v.id] IN
         IF kb.keys = << >>
           THEN Done(m, None)
           ELSE Done([m EXCEPT !.storage.keyboards[v.id].keys = Tail(kb.keys)],
                     Some(Head(kb.keys)))
    ELSE Panic(m, MissingComponent(v.type_, "Input"))

EntityView_get_mouse(m, v) ==
  EntityView_unwrap(m, v,
    IF v.id \in DOMAIN m.storage.keyboards
      THEN Some(m.storage.keyboards[v.id].mouse_pos) ELSE None,
    "Input")

EntityView_get_animation(m, v) ==
  EntityView_unwrap(m, v, Lookup(m.storage.animations, v.id), "Animation")

EntityView_set_animation(m, v, animation) ==
  Done([m EXCEPT !.storage = Storages_set_animation(m.storage, v.id, animation)], None)

EntityView_get_color(m, v) ==
  EntityView_unwrap(m, v, Lookup(m.storage.colors, v.id), "Color")

EntityView_set_color(m, v, color) ==
  Done([m EXCEPT !.storage = Storages_set_color(m.storage, v.id, color)], None)

EntityView_get_speed(m, v) ==
  EntityView_unwrap(m, v, Lookup(m.storage.speeds, v.id), "Speed")

EntityView_set_speed(m, v, speed) ==
  Done([m EXCEPT !.storage = Storages_set_speed(m.storage, v.id, speed)], None)

\* the callbacks f passed to access_timer, as data
TimerFn(t, f) ==
  CASE f.fn = "set_threshold" -> [t |-> Threshold_set_threshold(t, f.threshold), ret |-> None]
    [] f.fn = "tick" -> LET r == Threshold_tick(t, f.dt) IN [t |-> r.t, ret |-> r.fired]
    [] f.fn = "read" -> [t |-> t, ret |-> t]

RECURSIVE ViewCall(_, _, _, _)

\* a bug: the storages are not borrowed while the callback runs
EntityView_access_timer_unborrowed(m, v, f) ==
  IF v.id \in DOMAIN m.storage.timers
    THEN IF f.fn = "call"
           THEN ViewCall(m, f.view, f.call, << >>)
           ELSE LET r == TimerFn(m.storage.timers[v.id], f) IN
                Done([m EXCEPT !.storage.timers[v.id] = r.t], r.ret)
    ELSE Panic(m, MissingComponent(v.type_, "Timer"))

\* access_timer(f): the RefMut of storage_mut() lives until f has returned; a
\* callback [fn |-> "call"] makes the call f.call on the view f.view that it
\* captured
EntityView_access_timer(m, v, f) ==
  IF v.id \in DOMAIN m.storage.timers
    THEN IF f.fn = "call"
           THEN LET r == ViewCall([m EXCEPT !.borrow = 1], f.view, f.call, << >>)
                IN [r EXCEPT !.man.borrow = 0]
           ELSE LET r == TimerFn(m.storage.timers[v.id], f) IN
                Done([m EXCEPT !.storage.timers[v.id] = r.t], r.ret)
    ELSE Panic(m, MissingComponent(v.type_, "Timer"))

\* variant: the request is sent without looking for the Spawner marker
EntityView_request_spawn_unchecked(m, v, request) ==
  Done([m EXCEPT !.storage.spawn_requests = Append(m.storage.spawn_requests, request)],
       None)

EntityView_request_spawn(m, v, request) ==
  IF Storages_access_spawner(m.storage, v.id)
    THEN Done([m EXCEPT !.storage.spawn_requests = Append(m.storage.spawn_requests, request)],
              None)
    ELSE Panic(m, MissingComponent(v.type_, "Spawner"))

\* sequencing of calls: a panic ends the handler
Then(r, F(_)) == IF r.fault = NoFault THEN F(r.man) ELSE r

\* ------------------------------------------------------------- archetype.rs
STEP == 150

WallComponents == <<"Position", "Collider">>

SnakeHeadComponents ==
  <<"Position", "Direction", "Collider", "Input", "BodyLength", "Timer",
    "Spawner", "Animation", "Properties", "Sound">>

SnakeBodyComponents ==
  <<"Position", "Collider", "SelfDestruct", "Timer", "Properties">>

FireballComponents ==
  <<"Position", "Collider", "Direction", "Speed", "Scale", "Color", "Sound">>

TextComponents == <<"Position", "Timer", "Spawner", "Properties">>

LogicComponents == <<"Properties">>

OneshotComponents == <<"Sound">>

\* a call's result extended with the ids it spawned and the live ids it killed
Effects(r, spawned, killed) ==
  [man |-> r.man, fault |-> r.fault, spawned |-> spawned, killed |-> killed]

Spawned(id, type_, components) ==
  [id |-> id, type_ |-> type_, components |-> components]

\* snake::body
snake_body(m, position, lifetime, ord) ==
  LET sp == EntityManager_spawn(m, "SnakeBody", SnakeBodyComponents, ord)
      id == sp.id
      m1 == sp.man
      vw == EntityManager_view(m1, id)
      v  == vw.val
      r  == IF ~vw.some THEN Panic(m1, [kind |-> "UnwrapNone"])
            ELSE
              Then(Then(Then(
                EntityView_set_position(m1, v, position, ord),
                LAMBDA x : EntityView_set_self_destruct(x, v, lifetime)),
                LAMBDA x : EntityView_new_property(x, v, "neighbors",
                                                   [ty |-> "Vec<Direction>", val |-> "Up"])),
                LAMBDA x : EntityView_access_timer(x, v,
                                                   [fn |-> "set_threshold", threshold |-> STEP]))
  IN Effects(r, <<Spawned(id, "SnakeBody", SnakeBodyComponents)>>, {})

ATTACK_COOLDOWN == 3000

SnakeStart == [x |-> Sub, y |-> Sub, z |-> 0]

\* snake::new
snake_new(m, ord) ==
  LET sp == EntityManager_spawn(m, "SnakeHead", SnakeHeadComponents, ord)
      id == sp.id
      m1 == sp.man
      vw == EntityManager_view(m1, id)
      v  == vw.val
      r  == IF ~vw.some THEN Panic(m1, [kind |-> "UnwrapNone"])
            ELSE
              Then(Then(Then(Then(Then(Then(
                EntityView_set_position(m1, v, SnakeStart, ord),
                LAMBDA x : EntityView_access_timer(x, v,
                             [fn |-> "set_threshold", threshold |-> STEP])),
                LAMBDA x : EntityView_new_property(x, v, "score", [ty |-> "i32", val |-> 0])),
                LAMBDA x : EntityView_new_property(x, v, "smoothing",
                                                   [ty |-> "bool", val |-> TRUE])),
                LAMBDA x : EntityView_new_property(x, v, "shield",
                                                   [ty |-> "bool", val |-> FALSE])),
                LAMBDA x : EntityView_new_property(x, v, "can_attack",
                                                   [ty |-> "bool", val |-> FALSE])),
                LAMBDA x : EntityView_new_property(x, v, "attack_timer",
                             [ty |-> "Cooldown", val |-> Cooldown_new(ATTACK_COOLDOWN)]))
  IN Effects(r, <<Spawned(id, "SnakeHead", SnakeHeadComponents)>>, {})

FruitComponents == <<"Position", "Collider", "Spawner", "Sound", "Properties">>

\* fruit::put_at
fruit_put_at(m, pos, ord) ==
  LET sp == EntityManager_spawn(m, "Fruit", FruitComponents, ord)
      id == sp.id
      m1 == sp.man
      vw == EntityManager_view(m1, id)
      r  == IF ~vw.some THEN Panic(m1, [kind |-> "UnwrapNone"])
            ELSE EntityView_set_position(m1, vw.val, [x |-> pos.x, y |-> pos.y, z |-> 0],
                                         ord)
  IN Effects(r, <<Spawned(id, "Fruit", FruitComponents)>>, {})

\* fruit::bounded
fruit_bounded(m, pos, dim, respawns, ord) ==
  LET put == fruit_put_at(m, pos, ord)
      id == put.spawned[1].id
      vw == EntityManager_view(put.man, id)
      v  == vw.val
      r  == IF put.fault # NoFault THEN [man |-> put.man, fault |-> put.fault]
            ELSE IF ~vw.some THEN Panic(put.man, [kind |-> "UnwrapNone"])
            ELSE
              Then(Then(
                EntityView_new_property(put.man, v, "respawns",
                                        [ty |-> "i32", val |-> respawns]),
                LAMBDA x : EntityView_new_property(x, v, "bound.pos",
                                                   [ty |-> "Vec2", val |-> pos])),
                LAMBDA x : EntityView_new_property(x, v, "bound.dim",
                                                   [ty |-> "Vec2", val |-> dim]))
  IN Effects(r, put.spawned, {})

\* oneshot::play_sound
oneshot_play_sound(m, ord) ==
  LET sp == EntityManager_spawn(m, "Basic", OneshotComponents, ord)
      id == sp.id
      m1 == sp.man
      vw == EntityManager_view(m1, id)
      r  == IF ~vw.some THEN Panic(m1, [kind |-> "UnwrapNone"])
            ELSE Then(EntityView_get_sound(m1, vw.val),
                      LAMBDA x : Done(EntityManager_kill(x, id), None))
  IN Effects(r, <<Spawned(id, "Basic", OneshotComponents)>>,
             IF r.fault = NoFault THEN {id} \cap Range(m1.entities) ELSE {})

\* a request that asks, through the view of entity via, for a further request
chain_request(m, via, inner) ==
  LET vw == EntityManager_view(m, via)
      r  == IF vw.some THEN EntityView_request_spawn(m, vw.val, inner) ELSE Done(m, None)
  IN Effects(r, << >>, {})

\* a request that calls kill() on the view of entity via
kill_request(m, via) ==
  LET vw == EntityManager_view(m, via)
      r  == IF vw.some THEN EntityView_kill(m, vw.val) ELSE Done(m, None)
  IN Effects(r, << >>, {})

\* EntityManagerRequest: the boxed closures, as data
RunRequest(m, request, ord) ==
  CASE request.rq = "play_sound" -> oneshot_play_sound(m, ord)
    [] request.rq = "kill" -> kill_request(m, request.via)
    [] request.rq = "body" -> snake_body(m, request.pos, request.lifetime, ord)
    [] request.rq = "chain" -> chain_request(m, request.via, request.inner)

\* snake::die_sequence: play the sound, then exit(0)
snake_die_sequence(m, head) ==
  Then(EntityView_get_sound(m, head), LAMBDA x : Panic(x, [kind |-> "exit"]))

\* Collider::is_between(t1, t2, e1, e2): the pair reordered, or None
Collider_is_between(t1, t2, e1, e2) ==
  IF e1.type_ = t1 /\ e2.type_ = t2 THEN Some(<<e1, e2>>)
  ELSE IF e1.type_ = t2 /\ e2.type_ = t1 THEN Some(<<e2, e1>>)
  ELSE None

Overflow == [kind |-> "Overflow"]

\* snake::grow; ch.checked: the build has overflow checks
snake_grow(m, entity, ch) ==
  LET score == Storages_get_property(m.storage, entity.id, "score") IN
  IF ch.checked /\ score.some /\ score.val.ty = "i32" /\ overflows(score.val.val, 1)
    THEN Panic(m, Overflow)
  ELSE
    Then(Then(
      EntityView_with_mut_property(m, entity, "score", "i32", [fn |-> "add", n |-> 1]),
      LAMBDA x : EntityView_with_mut_property(x, entity, "smoothing", "bool",
                                              [fn |-> "assign", value |-> TRUE])),
      LAMBDA x :
        LET got == EntityView_get_body_length(x, entity)
            len == IF got.ret = 0 THEN 1 ELSE got.ret
        IN IF got.fault # NoFault THEN got
           ELSE IF ch.checked /\ overflows(len, 1) THEN Panic(x, Overflow)
           ELSE EntityView_set_body_length(x, entity, wrapping_add(len, 1)))

\* `if e.has_property(name) { e.with_property(name, |tx: &Sender<()>| tx.send(())) }`
Sender_send(m, v, name) ==
  IF EntityView_has_property(m, v, name).ret
    THEN LET tx == EntityView_with_property(m, v, name, "Sender<()>", [fn |-> "clone"])
         IN IF tx.fault # NoFault THEN tx
            ELSE Done(Sender_send_unit(m, tx.ret.val), None)
    ELSE Done(m, None)

\* fruit::make_eaten_trigger and fruit::make_kill_trigger
fruit_make_trigger(m, id, name) ==
  LET vw == EntityManager_view(m, id)
      ch == mpsc_channel(m)
  IN IF ~vw.some THEN Panic(m, [kind |-> "UnwrapNone"])
     ELSE EntityView_new_property(ch.man, vw.val, name,
                                  [ty |-> "Sender<()>", val |-> ch.id])

\* a room's fruit: fruit::bounded, then make_eaten_trigger and
\* make_kill_trigger on the id it returned
Room_fruit(m, pos, dim, respawns, ord) ==
  CHOOSE r \in
    {IF b.fault # NoFault THEN b
     ELSE Effects(fruit_make_trigger(
                    fruit_make_trigger(b.man, b.spawned[1].id, "eat_tx").man,
                    b.spawned[1].id, "kill_tx"),
                  b.spawned, b.killed) :
       b \in {fruit_bounded(m, pos, dim, respawns, ord)}} : TRUE

\* the values of (0.5 * rng.gen_range(0.0..dim.x)).floor() and of the same
\* for y, as vectors: k cells with 2k < dim
RespawnOffsets(dim) ==
  {[x |-> kx * Sub, y |-> ky * Sub] :
     kx \in {k \in 0..dim.x : 2 * k * Sub < dim.x},
     ky \in {k \in 0..dim.y : 2 * k * Sub < dim.y}}

\* fruit::respawn from the sound on, pos being the position chosen
fruit_eaten(m, fruit, pos, ord) ==
  Then(Then(
    EntityView_get_sound(m, fruit),
    LAMBDA x : Sender_send(x, fruit, "eat_tx")),
    LAMBDA x : EntityView_set_position(x, fruit, [x |-> pos.x, y |-> pos.y, z |-> 0], ord))

\* fruit::respawn; ch.offset: the random offset, ch.ord: the order of the scan
fruit_respawn(m, fruit, ch) ==
  IF EntityView_has_property(m, fruit, "respawns").ret
    THEN
      LET respawns == EntityView_with_property(m, fruit, "respawns", "i32", [fn |-> "clone"])
      IN
      IF respawns.fault # NoFault THEN respawns
      ELSE IF respawns.ret.val = 0
        THEN Then(EntityView_kill(m, fruit), LAMBDA x : Sender_send(x, fruit, "kill_tx"))
      ELSE IF ch.checked /\ overflows(respawns.ret.val, -1) THEN Panic(m, Overflow)
      ELSE
        LET dec == EntityView_with_mut_property(m, fruit, "respawns", "i32",
                                                [fn |-> "add", n |-> -1])
            pos == EntityView_with_property(dec.man, fruit, "bound.pos", "Vec2",
                                            [fn |-> "clone"])
            dim == EntityView_with_property(dec.man, fruit, "bound.dim", "Vec2",
                                            [fn |-> "clone"])
        IN IF pos.fault # NoFault THEN pos
           ELSE IF dim.fault # NoFault THEN dim
           ELSE IF RespawnOffsets(dim.ret.val) = {}
             THEN Panic(dec.man, [kind |-> "EmptyRange"])
           ELSE fruit_eaten(dec.man, fruit,
                            [x |-> pos.ret.val.x - ch.offset.x,
                             y |-> pos.ret.val.y - ch.offset.y], ch.ord)
    ELSE fruit_eaten(m, fruit, Vec2Default, ch.ord)

\* Collider::at_least(t, e1, e2): the pair with an entity of archetype t first
Collider_at_least(t, e1, e2) ==
  IF e1.type_ = t THEN Some(<<e1, e2>>)
  ELSE IF e2.type_ = t THEN Some(<<e2, e1>>)
  ELSE None

TriggerComponents == <<"Position", "Collider", "Properties">>

\* trigger::new; predicate: the archetype the predicate accepts
trigger_new(m, position, predicate, notify, ord) ==
  LET sp == EntityManager_spawn(m, "Trigger", TriggerComponents, ord)
      id == sp.id
      vw == EntityManager_view(sp.man, id)
      v  == vw.val
      r  == IF ~vw.some THEN Panic(sp.man, [kind |-> "UnwrapNone"])
            ELSE
              Then(Then(
                EntityView_set_position(sp.man, v,
                                        [x |-> position.x, y |-> position.y, z |-> 0], ord),
                LAMBDA x : EntityView_new_property(x, v, "predicate",
                                                   [ty |-> "fn", val |-> predicate])),
                LAMBDA x : EntityView_new_property(x, v, "notify",
                                                   [ty |-> "Sender<()>", val |-> notify]))
  IN Effects(r, <<Spawned(id, "Trigger", TriggerComponents)>>, {})

\* variant: a trigger that has notified stays
trigger_activated_stays(m, this, entity) ==
  IF entity.type_ = "Trigger" THEN Done(m, None)
  ELSE
    LET p == EntityView_with_property(m, this, "predicate", "fn", [fn |-> "clone"])
        n == EntityView_with_mut_property(m, this, "notify", "Sender<()>", [fn |-> "clone"])
    IN IF p.fault # NoFault THEN p
       ELSE IF entity.type_ # p.ret.val THEN Done(m, None)
       ELSE IF n.fault # NoFault THEN n
       ELSE Done(Sender_send_unit(n.man, n.ret.val), None)

\* trigger::activated
trigger_activated(m, this, entity) ==
  IF entity.type_ = "Trigger" THEN Done(m, None)
  ELSE
    LET p == EntityView_with_property(m, this, "predicate", "fn", [fn |-> "clone"])
        n == EntityView_with_mut_property(m, this, "notify", "Sender<()>", [fn |-> "clone"])
    IN IF p.fault # NoFault THEN p
       ELSE IF entity.type_ # p.ret.val THEN Done(m, None)
       ELSE IF n.fault # NoFault THEN n
       ELSE EntityView_kill(Sender_send_unit(n.man, n.ret.val), this)

\* Collider::collide
Collider_collide(m, e1, e2, ch) ==
  IF Collider_is_between("SnakeHead", "Fruit", e1, e2).some
    THEN LET pair == Collider_is_between("SnakeHead", "Fruit", e1, e2).val IN
         Then(fruit_respawn(m, pair[2], ch), LAMBDA x : snake_grow(x, pair[1], ch))
  ELSE IF Collider_is_between("SnakeHead", "SnakeBody", e1, e2).some
    THEN snake_die_sequence(m, Collider_is_between("SnakeHead", "SnakeBody", e1, e2).val[1])
  ELSE IF Collider_is_between("SnakeHead", "Wall", e1, e2).some
    THEN snake_die_sequence(m, Collider_is_between("SnakeHead", "Wall", e1, e2).val[1])
  ELSE IF Collider_is_between("Fireball", "Wall", e1, e2).some
    THEN EntityView_kill(m, Collider_is_between("Fireball", "Wall", e1, e2).val[1])
  ELSE IF Collider_at_least("Trigger", e1, e2).some
    THEN trigger_activated(m, Collider_at_least("Trigger", e1, e2).val[1],
                           Collider_at_least("Trigger", e1, e2).val[2])
  ELSE Done(m, None)

\* ------------------------------------------------------------- world.rs
\* x is evaluated once and handed to F
Bind(x, F(_)) == CHOOSE r \in {F(a) : a \in {x}} : TRUE

BACKGROUND_DEPTH == 9   \* 0.9, in tenths

WALL_DEPTH == 8         \* 0.8, in tenths

\* a position given in cells, as a Position
CellAt(c, z) == [x |-> c.x * Sub, y |-> c.y * Sub, z |-> z]

\* the order in which a scan of the positions table meets the ids: the table
\* is a HashMap and gives them in any order; taken here in rising or in
\* falling order of id, which differ in the order of the pairs a scan sends
ScanOrder(m, asc) ==
  [i \in 1..(m.tracker + 1) |-> IF asc THEN i - 1 ELSE m.tracker + 1 - i]

\* wall::new
wall_new(m, position, ord) ==
  LET sp == EntityManager_spawn(m, "Wall", WallComponents, ord)
      vw == EntityManager_view(sp.man, sp.id)
      r  == IF ~vw.some THEN Panic(sp.man, [kind |-> "UnwrapNone"])
            ELSE EntityView_set_position(sp.man, vw.val, position, ord)
  IN Effects(r, <<Spawned(sp.id, "Wall", WallComponents)>>, {})

BackgroundComponents == <<"Position", "Collider", "Scale">>

\* background::new
background_new(m, position, dimensions, ord) ==
  LET sp == EntityManager_spawn(m, "Background", BackgroundComponents, ord)
      vw == EntityManager_view(sp.man, sp.id)
      r  == IF ~vw.some THEN Panic(sp.man, [kind |-> "UnwrapNone"])
            ELSE Then(EntityView_set_position(sp.man, vw.val, position, ord),
                      LAMBDA x : EntityView_set_scale(x, vw.val, dimensions))
  IN Effects(r, <<Spawned(sp.id, "Background", BackgroundComponents)>>, {})

\* Vec2::from(direction)
Vec2FromDirection(direction) ==
  CASE direction = "Up" -> [x |-> 0, y |-> -1]
    [] direction = "Down" -> [x |-> 0, y |-> 1]
    [] direction = "Left" -> [x |-> -1, y |-> 0]
    [] direction = "Right" -> [x |-> 1, y |-> 0]
    [] OTHER -> Vec2Default

\* Direction::reverse
Direction_reverse(direction) ==
  CASE direction = "Up" -> "Down"
    [] direction = "Down" -> "Up"
    [] direction = "Left" -> "Right"
    [] direction = "Right" -> "Left"
    [] OTHER -> direction

\* the cells of the border of a room, in the order of the loops of
\* redraw_walls_and_bg: rows from y = 0, each from x = 0
BorderCells(width, height) ==
  LET all == [i \in 1..(width * height) |->
                [x |-> (i - 1) % width, y |-> (i - 1) \div width]]
  IN SelectSeq(all, LAMBDA c :
       c.y = 0 \/ c.y = height - 1 \/ c.x = 0 \/ c.x = width - 1)

\* one pass of the loop of redraw_walls_and_bg, from the state acc: the
\* manager, the parts made and the spawns done so far
WallsLoop_body(acc, cell, translate, asc) ==
  Bind(acc, LAMBDA a :
    IF a.fault # NoFault THEN a
    ELSE Bind(wall_new(a.man,
                       CellAt([x |-> translate.x + cell.x, y |-> translate.y + cell.y],
                              WALL_DEPTH),
                       ScanOrder(a.man, asc)),
              LAMBDA w :
                [man |-> w.man, fault |-> w.fault,
                 parts |-> Append(a.parts, w.spawned[1].id),
                 spawned |-> a.spawned \o w.spawned]))

\* the loop of redraw_walls_and_bg over the border cells, in their order:
\* the passes over the first half of the cells, then those over the rest
RECURSIVE WallsLoop(_, _, _, _)
WallsLoop(acc, cells, translate, asc) ==
  IF cells = << >> THEN acc
  ELSE IF Len(cells) = 1 THEN WallsLoop_body(acc, cells[1], translate, asc)
  ELSE Bind(WallsLoop(acc, SubSeq(cells, 1, Len(cells) \div 2), translate, asc),
            LAMBDA mid :
              WallsLoop(mid, SubSeq(cells, Len(cells) \div 2 + 1, Len(cells)),
                        translate, asc))

\* man.kill(part) for each of the parts, in their order
RECURSIVE KillParts(_, _)
KillParts(m, parts) ==
  IF parts = << >> THEN m
  ELSE IF Len(parts) = 1 THEN EntityManager_kill(m, parts[1])
  ELSE Bind(KillParts(m, SubSeq(parts, 1, Len(parts) \div 2)),
            LAMBDA mid : KillParts(mid, SubSeq(parts, Len(parts) \div 2 + 1, Len(parts))))

\* Room::redraw_walls_and_bg; sizes and positions of rooms are in cells, and
\* the halves the code takes are halves of even sizes
Room_redraw_walls_and_bg(m, room, asc) ==
  LET translate == [x |-> room.position.x - room.dimensions.x \div 2,
                    y |-> room.position.y - room.dimensions.y \div 2]
  IN Bind(background_new(m, CellAt(translate, BACKGROUND_DEPTH), room.dimensions,
                         ScanOrder(m, asc)),
          LAMBDA bg :
            Bind(WallsLoop([man |-> bg.man, fault |-> bg.fault,
                            parts |-> <<bg.spawned[1].id>>, spawned |-> bg.spawned],
                           BorderCells(room.dimensions.x, room.dimensions.y),
                           translate, asc),
                 LAMBDA made :
                   [man |-> KillParts(made.man, room.parts), fault |-> made.fault,
                    room |-> [room EXCEPT !.parts = made.parts],
                    spawned |-> made.spawned,
                    killed |-> Range(room.parts) \cap Range(made.man.entities)]))

\* Room::new
Room_new(m, position, dimensions, snake_id, asc) ==
  Room_redraw_walls_and_bg(m,
    [snake_id |-> snake_id, position |-> position,
     dimensions |-> [x |-> dimensions.x + 2, y |-> dimensions.y + 2],
     parts |-> << >>, last_hall |-> None, hall |-> None, hall_open |-> FALSE,
     hall_direction |-> DirectionDefault, hall_width |-> 0],
    asc)

\* Room::make_hall
Room_make_hall(m, room, direction, width, length, asc) ==
  LET w == width + 2
      d == Vec2FromDirection(direction)
      vertical == direction \in {"Up", "Down"}
      pos == IF vertical
               THEN [x |-> room.position.x,
                     y |-> room.position.y + d.y * ((room.dimensions.y + length) \div 2)]
               ELSE [x |-> room.position.x + d.x * ((room.dimensions.x + length) \div 2),
                     y |-> room.position.y]
      dim == IF vertical THEN [x |-> w, y |-> length] ELSE [x |-> length, y |-> w]
  IN IF direction \notin {"Up", "Down", "Left", "Right"}
       THEN [man |-> m, fault |-> [kind |-> "panic"], room |-> room,
             spawned |-> << >>, killed |-> {}]
       ELSE Bind(Room_new(m, pos, dim, room.snake_id, asc), LAMBDA hall :
              [hall EXCEPT !.room = [room EXCEPT !.hall = Some(hall.room),
                                                 !.hall_direction = direction,
                                                 !.hall_width = w]])

\* Room::empty; width and length: the draws of its rng
Room_empty(m, position, side, dimensions, snake_id, width, length, asc) ==
  Bind(Room_new(m, position, dimensions, snake_id, asc), LAMBDA ret :
    IF ret.fault # NoFault THEN ret
    ELSE Bind(Room_make_hall(ret.man, ret.room, side, width, length, asc), LAMBDA h :
           [h EXCEPT !.spawned = ret.spawned \o h.spawned,
                     !.killed = ret.killed \cup h.killed]))

\* the cells break_wall opens on a side: (xs, xe, ys, ye)
HoleOf(room, side, hole_size) ==
  LET px == room.position.x
      py == room.position.y
      hx == room.dimensions.x \div 2
      hy == room.dimensions.y \div 2
      h  == hole_size \div 2
  IN CASE side = "Up" -> [xs |-> px - h, xe |-> px + h - 1, ys |-> py - hy, ye |-> py - hy]
       [] side = "Down" ->
            [xs |-> px - h, xe |-> px + h - 1, ys |-> py + hy - 1, ye |-> py + hy - 1]
       [] side = "Left" -> [xs |-> px - hx, xe |-> px - hx, ys |-> py - h, ye |-> py + h - 1]
       [] side = "Right" ->
            [xs |-> px + hx - 1, xe |-> px + hx - 1, ys |-> py - h, ye |-> py + h - 1]

\* variant: the triggers are put in place of the walls, which stay
BreakLoop_body_keeps_walls(acc, part, hole, tx, asc) ==
  Bind(acc, LAMBDA a :
    LET wall == EntityManager_view(a.man, part)
        pos == IF wall.some THEN EntityView_get_position(a.man, wall.val)
               ELSE Done(a.man, None)
    IN IF a.fault # NoFault THEN a
       ELSE IF ~wall.some \/ EntityView_which(wall.val) # "Wall" THEN a
       ELSE IF pos.fault # NoFault THEN [a EXCEPT !.fault = pos.fault]
       ELSE IF ~(/\ hole.xs * Sub <= pos.ret.x /\ pos.ret.x <= hole.xe * Sub
                 /\ hole.ys * Sub <= pos.ret.y /\ pos.ret.y <= hole.ye * Sub)
         THEN a
       ELSE IF ~tx.some THEN a
       ELSE Bind(trigger_new(a.man, pos.ret, "SnakeHead", tx.val, ScanOrder(a.man, asc)),
                 LAMBDA t :
                   [man |-> t.man, fault |-> t.fault,
                    triggers |-> Append(a.triggers, t.spawned[1].id),
                    spawned |-> a.spawned \o t.spawned]))

\* one pass of the loop of break_wall, from the state acc: the manager, the
\* triggers made and the spawns done so far
BreakLoop_body(acc, part, hole, tx, asc) ==
  Bind(acc, LAMBDA a :
    LET wall == EntityManager_view(a.man, part)
        pos == IF wall.some THEN EntityView_get_position(a.man, wall.val)
               ELSE Done(a.man, None)
    IN IF a.fault # NoFault THEN a
       ELSE IF ~wall.some \/ EntityView_which(wall.val) # "Wall" THEN a
       ELSE IF pos.fault # NoFault THEN [a EXCEPT !.fault = pos.fault]
       ELSE IF ~(/\ hole.xs * Sub <= pos.ret.x /\ pos.ret.x <= hole.xe * Sub
                 /\ hole.ys * Sub <= pos.ret.y /\ pos.ret.y <= hole.ye * Sub)
         THEN a
       ELSE Bind(EntityView_kill(a.man, wall.val).man, LAMBDA killed :
              IF ~tx.some THEN [a EXCEPT !.man = killed]
              ELSE Bind(trigger_new(killed, pos.ret, "SnakeHead", tx.val,
                                    ScanOrder(killed, asc)),
                        LAMBDA t :
                          [man |-> t.man, fault |-> t.fault,
                           triggers |-> Append(a.triggers, t.spawned[1].id),
                           spawned |-> a.spawned \o t.spawned])))

\* the loop of break_wall over the parts, in their order: the passes over
\* the first half of the parts, then those over the rest
RECURSIVE BreakLoop(_, _, _, _, _)
BreakLoop(acc, parts, hole, tx, asc) ==
  IF parts = << >> THEN acc
  ELSE IF Len(parts) = 1 THEN BreakLoop_body(acc, parts[1], hole, tx, asc)
  ELSE Bind(BreakLoop(acc, SubSeq(parts, 1, Len(parts) \div 2), hole, tx, asc),
            LAMBDA mid :
              BreakLoop(mid, SubSeq(parts, Len(parts) \div 2 + 1, Len(parts)),
                        hole, tx, asc))

\* Room::break_wall; tx: the sender the triggers get, if any
Room_break_wall(m, room, side, hole_size, tx, asc) ==
  IF side \notin {"Up", "Down", "Left", "Right"}
    THEN [man |-> m, fault |-> [kind |-> "panic"], room |-> room, spawned |-> << >>]
    ELSE Bind(BreakLoop([man |-> m, fault |-> NoFault, triggers |-> << >>,
                         spawned |-> << >>],
                        room.parts, HoleOf(room, side, hole_size), tx, asc),
              LAMBDA b :
                [man |-> b.man, fault |-> b.fault,
                 room |-> [room EXCEPT !.parts = room.parts \o b.triggers],
                 spawned |-> b.spawned])

\* what open_hallway gives when the hallway is open already
OpenHallwayNone(m, room) ==
  [man |-> m, fault |-> NoFault, room |-> room, ret |-> None,
   spawned |-> << >>, killed |-> {}]

\* open_hallway after its test of hall_open, with a hallway to open
OpenHallwayFirst(m, room, asc) ==
  Bind(oneshot_play_sound(m, ScanOrder(m, asc)), LAMBDA snd :
  Bind(mpsc_channel(snd.man), LAMBDA near :
  Bind(mpsc_channel(near.man), LAMBDA far :
  Bind(Room_break_wall(far.man, room.hall.val, room.hall_direction, room.hall_width,
                       Some(far.id), asc), LAMBDA b1 :
  Bind(Room_break_wall(b1.man, b1.room, Direction_reverse(room.hall_direction),
                       room.hall_width, None, asc), LAMBDA b2 :
  Bind(Room_break_wall(b2.man, [room EXCEPT !.hall_open = TRUE], room.hall_direction,
                       room.hall_width, Some(near.id), asc), LAMBDA b3 :
    [man |-> b3.man,
     fault |-> IF snd.fault # NoFault THEN snd.fault
               ELSE IF b1.fault # NoFault THEN b1.fault
               ELSE IF b2.fault # NoFault THEN b2.fault ELSE b3.fault,
     room |-> [b3.room EXCEPT !.hall = Some(b2.room)],
     ret |-> Some(<<near.id, far.id>>),
     spawned |-> snd.spawned \o b1.spawned \o b3.spawned,
     killed |-> snd.killed]))))))

\* variant: every call opens the hallway
Room_open_hallway_again(m, room, asc) == OpenHallwayFirst(m, room, asc)

\* Room::open_hallway; ret: the listeners returned, (rx_near, rx_far)
Room_open_hallway(m, room, asc) ==
  IF room.hall_open THEN OpenHallwayNone(m, room)
  ELSE IF ~room.hall.some
    THEN [man |-> m, fault |-> [kind |-> "ExpectNone"],
          room |-> [room EXCEPT !.hall_open = TRUE], ret |-> None,
          spawned |-> << >>, killed |-> {}]
  ELSE OpenHallwayFirst(m, room, asc)

\* Entities::tick: the archetypes that have a tick behaviour
HasTick(type_) == type_ \in {"SnakeHead", "SnakeBody", "Fireball", "Swoop", "Text", "Logic"}

\* Entities::draw: the archetypes that have a draw behaviour
HasDraw(type_) ==
  type_ \in {"Wall", "Background", "Fruit", "SnakeHead", "SnakeBody", "Fireball",
             "Swoop", "Text"}

\* the draw behaviours only read the entity; each begins with get_position
Entities_draw(m, v) ==
  IF HasDraw(v.type_) THEN EntityView_get_position(m, v) ELSE Done(m, None)

\* the loop of EntityManager::draw from index i on: the panic that ended it
\* (if any) and the ids whose draw behaviour was invoked
RECURSIVE DrawLoop(_, _, _)
DrawLoop(m, i, seen) ==
  IF i > Len(m.entities) THEN [fault |-> NoFault, seen |-> seen]
  ELSE LET id == m.entities[i]
           vw == EntityManager_view(m, id)
       IN IF ~vw.some THEN [fault |-> [kind |-> "UnwrapNone"], seen |-> seen]
          ELSE LET r == Entities_draw(m, vw.val) IN
               IF r.fault # NoFault THEN [fault |-> r.fault, seen |-> Append(seen, id)]
               ELSE DrawLoop(m, i + 1, Append(seen, id))

EntityManager_draw(m) == DrawLoop(m, 1, << >>)

\* ------------------------------------------------------------- inputs
\* the ids a caller can name: those issued so far and the next one
Ids(m) == 0..m.tracker

RECURSIVE Perms(_)
Perms(S) ==
  IF S = {} THEN {<< >>}
  ELSE UNION {{<<x>> \o p : p \in Perms(S \ {x})} : x \in S}

\* iteration orders of the positions table (a HashMap: any order) as far as a
\* call can observe them: over the ids a scan for one of the positions
\* scanned can report, which are the colliders in the same cell and the id
\* being spawned
Orders(m, scanned) ==
  LET cells == {Vec2Floor(p) : p \in scanned}
      S == {id \in (DOMAIN m.storage.positions) \cap (DOMAIN m.storage.colliders) :
              Vec2Floor(m.storage.positions[id]) \in cells}
             \cup (IF scanned = {} THEN {} ELSE {m.tracker})
  IN Perms(S)

\* the positions whose cell a call scans: set_position scans when the entity
\* is a collider
SpawnScan(components) ==
  IF \E i, j \in DOMAIN components :
       i < j /\ components[i] = "Collider" /\ components[j] = "Position"
    THEN {Vec3Default} ELSE {}

ViewScan(c) == IF c.op = "set_position" THEN {c.pos} ELSE {}

RequestScan(requests) ==
  IF requests # << >> /\ Head(requests).rq = "body" THEN {Head(requests).pos} ELSE {}

\* the fruit of the pair at the head of the collision queue, when that pair is
\* handed to the snake-head/fruit branch of Collider::collide
RespawnFruit(m) ==
  IF m.storage.collisions = << >> THEN None
  ELSE LET pair == Head(m.storage.collisions)
           e1 == EntityManager_view(m, pair[1])
           e2 == EntityManager_view(m, pair[2])
       IN IF e1.some /\ e2.some
               /\ Collider_is_between("SnakeHead", "Fruit", e1.val, e2.val).some
            THEN Some(Collider_is_between("SnakeHead", "Fruit", e1.val, e2.val).val[2])
            ELSE None

\* what one iteration of the collision loop leaves open: the random offset of
\* fruit::respawn, the order of its scan, and the build's overflow checks
CollisionChoices(m) ==
  LET fruit == RespawnFruit(m)
      bag == IF fruit.some /\ fruit.val.id \in DOMAIN m.storage.properties
               THEN m.storage.properties[fruit.val.id] ELSE EmptyMap
      bounded == {"bound.pos", "bound.dim"} \subseteq DOMAIN bag
      offsets == IF bounded /\ RespawnOffsets(bag["bound.dim"].val) # {}
                   THEN RespawnOffsets(bag["bound.dim"].val) ELSE {Vec2Default}
      bases == {Vec2Default} \cup (IF bounded THEN {bag["bound.pos"].val} ELSE {})
      targets == IF fruit.some
                   THEN {[x |-> b.x - o.x, y |-> b.y - o.y, z |-> 0] :
                           b \in bases, o \in offsets}
                   ELSE {}
  IN [ord : Orders(m, targets), checked : BOOLEAN, offset : offsets]

PosInputs == {[x |-> 1, y |-> 0, z |-> 0], [x |-> Sub, y |-> 0, z |-> 0]}

DtInputs == {100}

KeyInputs == {"W"}

MouseInputs == {[x |-> 1, y |-> 1]}

\* inputs of Spec
SpawnInputs ==
  {[type_ |-> "Wall", components |-> WallComponents],
   [type_ |-> "SnakeHead", components |-> SnakeHeadComponents]}

BodyRequest == [rq |-> "body", pos |-> [x |-> 1, y |-> 0, z |-> 0], lifetime |-> 1]

ChainRequest == [rq |-> "chain", via |-> 0, inner |-> [rq |-> "play_sound"]]

PropertyTypes == {"i32", "f32"}

ViewOps ==
  {[op |-> g] : g \in {"kill", "get_position", "get_key"}}
    \cup {[op |-> "request_spawn", req |-> BodyRequest]}
    \cup {[op |-> "set_position", pos |-> p] : p \in PosInputs}
    \cup {[op |-> "set_direction", dir |-> "Up"]}
    \cup {[op |-> "set_speed", speed |-> 15]}
    \cup {[op |-> "access_timer", f |-> [fn |-> "tick", dt |-> d]] : d \in DtInputs}
    \cup {[op |-> "new_property", name |-> "score", value |-> [ty |-> "i32", val |-> 0]]}
    \cup {[op |-> "remove_property", name |-> "score"]}
    \cup {[op |-> "get_property", name |-> "score", ty |-> t] : t \in PropertyTypes}
    \cup {[op |-> "set_property", name |-> "score", ty |-> t, value |-> 7] :
             t \in PropertyTypes}

\* inputs of TickSpec
TickSpawnInputs == {[type_ |-> "SnakeHead", components |-> SnakeHeadComponents]}

TickViewOps ==
  {[op |-> "kill"]}
    \cup {[op |-> "request_spawn", req |-> r] : r \in {BodyRequest, ChainRequest}}

\* a component list spawn accepts that no archetype uses: the marker first
ColliderFirstComponents == <<"Collider", "Position">>

\* inputs of SpawnSpec
OrderSpawnInputs ==
  SpawnInputs \cup {[type_ |-> "Basic", components |-> ColliderFirstComponents]}

OrderViewOps == {[op |-> "set_position", pos |-> p] : p \in PosInputs}

\* inputs of CollideSpec
CollideViewOps ==
  {[op |-> "set_position", pos |-> p] : p \in PosInputs}
    \cup {[op |-> "kill"], [op |-> "request_spawn", req |-> BodyRequest]}

\* inputs of FruitSpec
FruitPosInputs == {Vec2Default, [x |-> Sub, y |-> Sub]}

BoundedInputs ==
  {[pos |-> [x |-> Sub, y |-> Sub], dim |-> [x |-> 3 * Sub, y |-> Sub], respawns |-> r] :
     r \in {0, 1}}

\* inputs of RespawnSpec: a bound one cell wide, whose one target is the cell
\* of its centre, and a bound two cells wide
RespawnInputs ==
  {[pos |-> [x |-> Sub, y |-> Sub], dim |-> [x |-> w * Sub, y |-> Sub], respawns |-> r] :
     w \in {1, 3}, r \in {-1, 0, 1}}

RespawnViewOps == {[op |-> "set_position", pos |-> SnakeStart]}

KillRequest == [rq |-> "kill", via |-> 0]

FruitViewOps ==
  {[op |-> "set_position", pos |-> [x |-> 1, y |-> 0, z |-> 0]],
   [op |-> "request_spawn", req |-> KillRequest]}

\* inputs of KillSpec
KillViewOps == FruitViewOps \cup {[op |-> "set_position", pos |-> SnakeStart]}

\* inputs of PropertySpec
PropertySpawnInputs ==
  {[type_ |-> "Logic", components |-> LogicComponents],
   [type_ |-> "Wall", components |-> WallComponents]}

PropertyNames == {"score", "shield"}

PropertyValues == {[ty |-> "i32", val |-> 1], [ty |-> "f32", val |-> 2]}

PropertyViewOps ==
  {[op |-> "new_property", name |-> n, value |-> v] :
     n \in PropertyNames, v \in PropertyValues}
    \cup {[op |-> "remove_property", name |-> n] : n \in PropertyNames}
    \cup {[op |-> "get_property", name |-> "score", ty |-> t] : t \in PropertyTypes}
    \cup {[op |-> "set_property", name |-> "score", ty |-> t, value |-> 7] :
             t \in PropertyTypes}

\* inputs of InputSpec
InputKeyInputs == {"W", "A"}

InputMouseInputs == {[x |-> 1, y |-> 1], [x |-> Sub, y |-> 1]}

InputViewOps == {[op |-> "get_key"], [op |-> "get_mouse"]}

\* inputs of TimerSpec
TimerDtInputs == {0, 100}

TimerViewOps ==
  {[op |-> "access_timer", f |-> [fn |-> "tick", dt |-> d]] : d \in TimerDtInputs}
    \cup {[op |-> "access_timer", f |-> [fn |-> "set_threshold", threshold |-> STEP]]}

\* inputs of BorrowSpec: the calls a callback of access_timer makes on a view
InnerOps ==
  {[op |-> g] : g \in {"kill", "which", "get_position", "get_key"}}
    \cup {[op |-> "set_position", pos |-> [x |-> 1, y |-> 0, z |-> 0]]}
    \cup {[op |-> "new_property", name |-> "score", value |-> [ty |-> "i32", val |-> 0]]}
    \cup {[op |-> "has_property", name |-> "score"]}
    \cup {[op |-> "request_spawn", req |-> [rq |-> "play_sound"]]}
    \cup {[op |-> "access_timer", f |-> [fn |-> "read"]]}

BorrowViewOps(m) ==
  {[op |-> "access_timer",
    f |-> [fn |-> "call", view |-> EntityManager_view(m, o).val, call |-> c]] :
     o \in Range(m.entities), c \in InnerOps}
    \cup {[op |-> "get_position"],
          [op |-> "access_timer", f |-> [fn |-> "tick", dt |-> 100]]}

\* the operations of a view that take neither storage() nor storage_mut()
StorageFree == {"kill", "which"}

\* one call on the view v; every operation but those of StorageFree begins by
\* borrowing the storages
ViewCall(m, v, c, ord) ==
  IF m.borrow # 0 /\ c.op \notin StorageFree THEN Panic(m, AlreadyBorrowed) ELSE
  CASE c.op = "kill" -> EntityView_kill(m, v)
    [] c.op = "which" -> Done(m, EntityView_which(v))
    [] c.op = "request_spawn" -> EntityView_request_spawn(m, v, c.req)
    [] c.op = "get_sound" -> EntityView_get_sound(m, v)
    [] c.op = "get_position" -> EntityView_get_position(m, v)
    [] c.op = "set_position" -> EntityView_set_position(m, v, c.pos, ord)
    [] c.op = "get_direction" -> EntityView_get_direction(m, v)
    [] c.op = "set_direction" -> EntityView_set_direction(m, v, c.dir)
    [] c.op = "get_body_length" -> EntityView_get_body_length(m, v)
    [] c.op = "set_body_length" -> EntityView_set_body_length(m, v, c.n)
    [] c.op = "get_self_destruct" -> EntityView_get_self_destruct(m, v)
    [] c.op = "set_self_destruct" -> EntityView_set_self_destruct(m, v, c.n)
    [] c.op = "get_scale" -> EntityView_get_scale(m, v)
    [] c.op = "set_scale" -> EntityView_set_scale(m, v, c.scale)
    [] c.op = "get_key" -> EntityView_get_key(m, v)
    [] c.op = "get_mouse" -> EntityView_get_mouse(m, v)
    [] c.op = "get_animation" -> EntityView_get_animation(m, v)
    [] c.op = "set_animation" -> EntityView_set_animation(m, v, c.anim)
    [] c.op = "get_color" -> EntityView_get_color(m, v)
    [] c.op = "set_color" -> EntityView_set_color(m, v, c.col)
    [] c.op = "get_speed" -> EntityView_get_speed(m, v)
    [] c.op = "set_speed" -> EntityView_set_speed(m, v, c.speed)
    [] c.op = "access_timer" -> EntityView_access_timer(m, v, c.f)
    [] c.op = "new_property" -> EntityView_new_property(m, v, c.name, c.value)
    [] c.op = "remove_property" -> EntityView_remove_property(m, v, c.name)
    [] c.op = "has_property" -> EntityView_has_property(m, v, c.name)
    [] c.op = "get_property" -> EntityView_get_property(m, v, c.name, c.ty)
    [] c.op = "set_property" -> EntityView_set_property(m, v, c.name, c.ty, c.value)

\* ------------------------------------------------------------- state
VARIABLES
  man,        \* the EntityManager
  pc,         \* position inside tick: idle, dispatch, kill, spawn, collide
  idx,        \* index of the dispatch loop in the directory
  tickdt,     \* dt of the tick in progress
  fault,      \* the panic (or exit) that ended the process, if any
  calls,      \* calls made so far by the callers and by the tick behaviours
  tickNo,     \* number of the tick in progress (of the last tick when idle)
  issued,     \* history: the ids returned by spawn, in order
  declared,   \* history: id -> component kinds it was spawned with
  dead,       \* history: ids on which kill acted while they were live
  log,        \* history: kinds of work done so far in the tick in progress
  reqOrigin,  \* history: for each queued spawn request, when it was enqueued
  execd,      \* history: executed spawn requests, when enqueued and when run
  born,       \* history: id -> when it was spawned, with which tag, by which request
  firstTick,  \* history: id -> tick of its first tick behaviour (0: none)
  lastSpawn,  \* history: the id the previous step's spawn call returned
  resolved,   \* history: the pairs the collision loop of this tick has taken
  moved,      \* history: <<id, position>> of the set_position calls since the
              \* last tick began (sets) and since construction (ever), and
              \* whether the collision queue was empty when the tick began
  clock,      \* a Threshold and a Cooldown owned by a caller, with the record
              \* of the calls made on them
  propCall,   \* history: the call on the property bag made by the previous
              \* step, if any, with the bag of the entity before the call
  visits,     \* history: the last dispatch or draw loop (drawn: the ids the
              \* last draw invoked, when no tick came between): the directory and
              \* the queued kills when it began, the ids it has invoked
  mark,       \* history: the manager when the collision loop in progress first
              \* fed its own queue
  input,      \* history: the keys the input loops of tick have taken, each with
              \* the number of its tick (drained), the last pointer position
              \* taken (pointer), id -> the first tick whose input loops found
              \* it with an Input (first), id -> the keys get_key gave it (read)
  world       \* what the rooms keep: the tutorial room's controls (the state
              \* its logic closure captured, the channels it reads and writes,
              \* the record of the time its calls were given) and the fruit
              \* a room made, with the respawns it was made with

vars ==
  <<man, pc, idx, tickdt, fault, calls, tickNo, issued, declared, dead,
    log, reqOrigin, execd, born, firstTick, lastSpawn, resolved,
    moved, clock, propCall, visits, mark, input, world>>

\* a Threshold and a Cooldown with the record of the calls made on them:
\* ticks, dts and fires since the accumulator of the timer was last 0 by
\* construction or reset, elapsed since the cooldown was armed
Clock(timer, cooldown) ==
  [timer |-> timer, ticks |-> 0, dts |-> {}, fires |-> << >>, last |-> None,
   cooldown |-> cooldown, armed |-> FALSE, elapsed |-> 0]

\* the fields of Game that its tick uses on the hallway, with the number of
\* ticks it has finished (ticks), the messages it has taken from each
\* channel (taken) and the next rooms it has generated (next_rooms)
GameNew ==
  [pan_to_hall_trigger |-> None, pan_to_room_trigger |-> None,
   lerping |-> FALSE, accum |-> 0, ticks |-> 0, taken |-> << >>, next_rooms |-> 0]

\* the controls as tut_controls leaves them, with the record of the calls of
\* the closure: whether a call has found a move signal waiting (observed), the
\* time given to the calls before that one (before), and the time given to
\* that call and the calls after it (since); the fruit a room has made with
\* fruit::bounded, with the respawns it was made with; the room of the game,
\* the calls of open_hallway on it with what the last one returned, and the
\* game
World_tut_controls ==
  [tut |-> TutControls, observed |-> FALSE, before |-> 0, since |-> 0,
   fruit |-> None, room |-> None, hallway |-> [calls |-> 0, ret |-> None],
   game |-> GameNew]

ManagerInit ==
  /\ man = EntityManagerNew
  /\ pc = "idle"
  /\ idx = 0
  /\ tickdt = 0
  /\ fault = NoFault
  /\ calls = 0
  /\ tickNo = 0
  /\ issued = << >>
  /\ declared = EmptyMap
  /\ dead = {}
  /\ log = << >>
  /\ reqOrigin = << >>
  /\ execd = {}
  /\ born = EmptyMap
  /\ firstTick = EmptyMap
  /\ lastSpawn = None
  /\ resolved = << >>
  /\ moved = [clean |-> TRUE, sets |-> {}, ever |-> {}]
  /\ propCall = None
  /\ mark = None
  /\ input = [drained |-> << >>, pointer |-> None, first |-> EmptyMap,
              read |-> EmptyMap]
  /\ world = World_tut_controls
  /\ visits = [kind |-> "none", start |-> << >>, doomed |-> {}, seen |-> << >>,
               drawn |-> {}]

Init == ManagerInit /\ clock = Clock(ThresholdDefault, CooldownDefault)

Live == Range(man.entities)

Now == [tick |-> tickNo, phase |-> pc]

External == [tick |-> 0, phase |-> "direct"]

\* work of kind w was done in the tick in progress
Logged(w) == IF log # << >> /\ log[Len(log)] = w THEN log ELSE Append(log, w)

RECURSIVE Declare(_, _)
Declare(d, spawned) ==
  IF spawned = << >> THEN d
  ELSE Declare(Insert(d, Head(spawned).id, Range(Head(spawned).components)), Tail(spawned))

RECURSIVE Bear(_, _, _, _)
Bear(b, spawned, at, origin) ==
  IF spawned = << >> THEN b
  ELSE Bear(Insert(b, Head(spawned).id,
                   [tick |-> at.tick, phase |-> at.phase,
                    otick |-> origin.tick, ophase |-> origin.phase,
                    tag |-> Head(spawned).type_]),
            Tail(spawned), at, origin)

RECURSIVE Unticked(_, _)
Unticked(f, spawned) ==
  IF spawned = << >> THEN f
  ELSE Unticked(Insert(f, Head(spawned).id, 0), Tail(spawned))

\* the set_position calls of a spawn: add_component(Position) sets the default
SpawnMoves(spawned) ==
  {<<spawned[i].id, Vec3Default>> :
     i \in {k \in 1..Len(spawned) : "Position" \in Range(spawned[k].components)}}

\* the set_position call of a call on a view
ViewMoves(id, c) == IF c.op = "set_position" THEN {<<id, c.pos>>} ELSE {}

\* the set_position call of a spawn request: snake::body sets the new body
RequestMoves(request, spawned) ==
  IF request.rq = "body" THEN {<<spawned[i].id, request.pos>> : i \in 1..Len(spawned)}
  ELSE {}

PropertyOps == {"new_property", "remove_property", "get_property", "set_property"}

PropertyCall(id, c) ==
  IF c.op \in PropertyOps
    THEN Some([id |-> id, call |-> c, bag |-> Lookup(man.storage.properties, id)])
    ELSE None

Moved(new) ==
  [moved EXCEPT !.sets = moved.sets \cup new, !.ever = moved.ever \cup new]

\* the set_position call of fruit::respawn in a step of the collision loop
\* that took the manager from m1 to m2
RespawnMoves(m, m1, m2) ==
  LET fruit == RespawnFruit(m) IN
  IF fruit.some /\ m2.dying = m1.dying /\ fruit.val.id \in DOMAIN m2.storage.positions
    THEN {<<fruit.val.id, m2.storage.positions[fruit.val.id]>>}
    ELSE {}

\* the manager as the collision loop left it when a handler first sent into
\* the queue the loop is taking from (m1: the head taken, m2: the handler
\* run); fresh until the loop takes a further pair
Marked(m1, m2) ==
  IF mark.some THEN Some([man |-> mark.val.man, fresh |-> FALSE])
  ELSE IF Len(m2.storage.collisions) > Len(m1.storage.collisions)
    THEN Some([man |-> m2, fresh |-> TRUE])
  ELSE None

\* the pairs taken by the collision loop, the last MaxResolved of them
Resolve(entry) ==
  IF Len(resolved) < MaxResolved THEN Append(resolved, entry)
  ELSE Append(Tail(resolved), entry)

\* the history of a step that left the manager m2, raised f, spawned and
\* killed the given entities; popped: the step took the head of the spawn queue
\* the input loops of the tick that begins take the keys and the pointer
\* positions queued in m
Drained(m) ==
  LET at == tickNo + 1
      holders == DOMAIN m.storage.keyboards
  IN [input EXCEPT
        !.drained = @ \o [i \in DOMAIN m.keystrokes |->
                            [key |-> m.keystrokes[i], tick |-> at]],
        !.pointer = IF m.mouse_movements = << >> THEN @
                    ELSE Some([pos |-> m.mouse_movements[Len(m.mouse_movements)],
                               tick |-> at]),
        !.first = [e \in (DOMAIN @) \cup holders |->
                     IF e \in DOMAIN @ THEN @[e] ELSE at]]

\* the call c on the view of id returned r
KeyRead(id, c, r) ==
  IF c.op = "get_key" /\ r.fault = NoFault /\ r.ret.some
    THEN [input EXCEPT !.read = Insert(@, id, (IF id \in DOMAIN @ THEN @[id] ELSE << >>)
                                               \o <<r.ret.val>>)]
    ELSE input

Commit(m2, f, spawned, killed, popped, origin) ==
  /\ man' = m2
  /\ fault' = f
  /\ issued' = issued \o [i \in 1..Len(spawned) |-> spawned[i].id]
  /\ declared' = Declare(declared, spawned)
  /\ dead' = dead \cup killed
  /\ born' = Bear(born, spawned, IF origin = External THEN External ELSE Now, origin)
  /\ LET kept == IF popped THEN Tail(reqOrigin) ELSE reqOrigin
         n == Len(m2.storage.spawn_requests) - Len(kept)
     IN reqOrigin' = kept \o [i \in 1..n |-> Now]

\* ------------------------------------------------------------- callers
\* man.spawn(type_, components) by an owner of the manager, between ticks
Spawn(in, ord, maxCalls) ==
  /\ fault = NoFault /\ pc = "idle"
  /\ calls < maxCalls
  /\ LET r == EntityManager_spawn(man, in.type_, in.components, ord)
         sp == <<Spawned(r.id, in.type_, in.components)>>
     IN /\ Commit(r.man, NoFault, sp, {}, FALSE, External)
        /\ firstTick' = Unticked(firstTick, sp)
        /\ lastSpawn' = Some(r.id)
        /\ moved' = Moved(SpawnMoves(sp))
  /\ calls' = calls + 1
  /\ propCall' = None
  /\ UNCHANGED <<clock, world, input, mark, visits, resolved, pc, idx, tickdt, tickNo, log, execd>>

\* a constructor of archetype.rs called by an owner of the manager, between
\* ticks; r: what it did, at: the position it set
Constructed(r, at, maxCalls) ==
  /\ fault = NoFault /\ pc = "idle"
  /\ calls < maxCalls
  /\ Commit(r.man, r.fault, r.spawned, r.killed, FALSE, External)
  /\ firstTick' = Unticked(firstTick, r.spawned)
  /\ lastSpawn' = Some(r.spawned[1].id)
  /\ moved' = Moved(SpawnMoves(r.spawned) \cup {<<r.spawned[1].id, at>>})
  /\ calls' = calls + 1
  /\ propCall' = None
  /\ UNCHANGED <<clock, world, input, mark, visits, resolved, pc, idx, tickdt, tickNo, log, execd>>

Count(type_) == Cardinality({i \in DOMAIN man.types : man.types[i] = type_})

\* snake::new(man): the game has one snake
SnakeNew(ord, maxCalls) ==
  /\ Count("SnakeHead") = 0
  /\ Constructed(snake_new(man, ord), SnakeStart, maxCalls)

\* fruit::put_at(man, pos)
FruitPutAt(pos, ord, maxCalls) ==
  /\ Count("Fruit") < MaxFruits
  /\ Constructed(fruit_put_at(man, pos, ord), [x |-> pos.x, y |-> pos.y, z |-> 0],
                 maxCalls)

\* fruit::bounded(man, pos, dim, respawns)
FruitBounded(in, ord, maxCalls) ==
  /\ Count("Fruit") < MaxFruits
  /\ Constructed(fruit_bounded(man, in.pos, in.dim, in.respawns, ord),
                 [x |-> in.pos.x, y |-> in.pos.y, z |-> 0], maxCalls)

\* a room makes its fruit, between ticks: fruit::bounded and the two triggers
RoomFruit(in, ord, maxCalls) ==
  /\ Count("Fruit") < MaxFruits
  /\ fault = NoFault /\ pc = "idle"
  /\ calls < maxCalls
  /\ \E r \in {Room_fruit(man, in.pos, in.dim, in.respawns, ord)} :
     /\ Commit(r.man, r.fault, r.spawned, r.killed, FALSE, External)
     /\ firstTick' = Unticked(firstTick, r.spawned)
     /\ lastSpawn' = Some(r.spawned[1].id)
     /\ moved' = Moved(SpawnMoves(r.spawned)
                         \cup {<<r.spawned[1].id, [x |-> in.pos.x, y |-> in.pos.y, z |-> 0]>>})
     /\ world' = [world EXCEPT !.fruit = Some([id |-> r.spawned[1].id,
                                                respawns |-> in.respawns])]
  /\ calls' = calls + 1
  /\ propCall' = None
  /\ UNCHANGED <<clock, input, mark, visits, resolved, pc, idx, tickdt, tickNo, log, execd>>

\* man.kill(entity) by an owner of the manager, between ticks
Kill(entity, maxCalls) ==
  /\ fault = NoFault /\ pc = "idle"
  /\ calls < maxCalls
  /\ Commit(EntityManager_kill(man, entity), NoFault, << >>,
            {entity} \cap Live, FALSE, External)
  /\ lastSpawn' = None
  /\ calls' = calls + 1
  /\ propCall' = None
  /\ UNCHANGED <<clock, world, input, mark, visits, moved, resolved, pc, idx, tickdt, tickNo, log, execd, firstTick>>

\* man.view(entity) and one call on the view, between ticks
View(entity, c, ord, maxCalls) ==
  /\ fault = NoFault /\ pc = "idle"
  /\ calls < maxCalls
  /\ EntityManager_view(man, entity).some
  /\ LET r == ViewCall(man, EntityManager_view(man, entity).val, c, ord)
     IN /\ Commit(r.man, r.fault, << >>, {}, FALSE, External)
        /\ input' = KeyRead(entity, c, r)
  /\ moved' = Moved(ViewMoves(entity, c))
  /\ calls' = calls + 1
  /\ lastSpawn' = None
  /\ propCall' = PropertyCall(entity, c)
  /\ UNCHANGED <<clock, world, mark, visits, resolved, pc, idx, tickdt, tickNo, log, execd, firstTick>>

\* man.draw(renderer, palette) by the owner of the manager, between ticks
Draw(maxCalls) ==
  /\ fault = NoFault /\ pc = "idle"
  /\ calls < maxCalls
  /\ LET r == EntityManager_draw(man)
     IN /\ fault' = r.fault
        /\ visits' = [kind |-> "draw", start |-> man.entities,
                      doomed |-> Range(man.dying), seen |-> r.seen,
                      drawn |-> Range(r.seen)]
  /\ calls' = calls + 1
  /\ lastSpawn' = None
  /\ propCall' = None
  /\ UNCHANGED <<clock, world, input, mark, moved, resolved, man, pc, idx, tickdt, tickNo, issued, declared,
                 dead, log, reqOrigin, execd, born, firstTick>>

\* the window sends a key press
KeyPress(key, maxCalls) ==
  /\ fault = NoFault /\ pc = "idle"
  /\ calls < maxCalls
  /\ man' = [man EXCEPT !.keystrokes = Append(man.keystrokes, key)]
  /\ calls' = calls + 1
  /\ lastSpawn' = None
  /\ UNCHANGED <<clock, world, input, mark, visits, propCall, moved, resolved, pc, idx, tickdt, fault, tickNo, issued, declared, dead,
                 log, reqOrigin, execd, born, firstTick>>

\* the window sends a pointer position
MouseMove(pos, maxCalls) ==
  /\ fault = NoFault /\ pc = "idle"
  /\ calls < maxCalls
  /\ man' = [man EXCEPT !.mouse_movements = Append(man.mouse_movements, pos)]
  /\ calls' = calls + 1
  /\ lastSpawn' = None
  /\ UNCHANGED <<clock, world, input, mark, visits, propCall, moved, resolved, pc, idx, tickdt, fault, tickNo, issued, declared, dead,
                 log, reqOrigin, execd, born, firstTick>>

\* ------------------------------------------------------------- tick
RECURSIVE DeliverKeys(_, _)
DeliverKeys(s, keys) ==
  IF keys = << >> THEN s
  ELSE DeliverKeys(Storages_key_pressed(s, Head(keys)), Tail(keys))

RECURSIVE DeliverMouse(_, _)
DeliverMouse(s, moves) ==
  IF moves = << >> THEN s
  ELSE DeliverMouse(Storages_mouse_moved(s, Head(moves)), Tail(moves))

\* a bug: keys stay queued while no entity has an Input
TickInput_keeps_unheard(m) ==
  [m EXCEPT !.storage = DeliverMouse(DeliverKeys(m.storage, m.keystrokes),
                                     m.mouse_movements),
            !.keystrokes = IF DOMAIN m.storage.keyboards = {} THEN @ ELSE << >>,
            !.mouse_movements = << >>]

\* tick(dt), the two input loops
TickInput(m) ==
  [m EXCEPT !.storage = DeliverMouse(DeliverKeys(m.storage, m.keystrokes),
                                     m.mouse_movements),
            !.keystrokes = << >>,
            !.mouse_movements = << >>]

TickBegin(dt, maxCalls) ==
  /\ fault = NoFault /\ pc = "idle"
  /\ calls < maxCalls
  /\ man' = TickInput(man)
  /\ input' = Drained(man)
  /\ pc' = "dispatch"
  /\ idx' = 1
  /\ tickdt' = dt
  /\ tickNo' = tickNo + 1
  /\ log' = IF man.keystrokes # << >> \/ man.mouse_movements # << >>
              THEN <<"input">> ELSE << >>
  /\ lastSpawn' = None
  /\ calls' = calls + 1
  /\ moved' = [moved EXCEPT !.clean = man.storage.collisions = << >>, !.sets = {}]
  /\ propCall' = None
  /\ visits' = [kind |-> "tick", start |-> man.entities, doomed |-> Range(man.dying),
                seen |-> << >>,
                drawn |-> IF visits.kind = "draw" THEN visits.drawn ELSE {}]
  /\ UNCHANGED <<clock, world, mark, resolved, fault, issued, declared, dead, reqOrigin, execd,
                 born, firstTick>>

\* a bug: the dispatch loop passes over an entity whose kill is queued
TickEntity_skips_dying(c, ord, maxCalls) ==
  /\ fault = NoFault /\ pc = "dispatch"
  /\ idx <= Len(man.entities)
  /\ LET id == man.entities[idx]
         vw == EntityManager_view(man, id)
         skip == id \in Range(man.dying)
         act == /\ c.op # "none" /\ vw.some /\ HasTick(vw.val.type_) /\ calls < maxCalls
                /\ ~skip
         r == IF ~vw.some THEN Panic(man, [kind |-> "UnwrapNone"])
              ELSE IF act THEN ViewCall(man, vw.val, c, ord)
              ELSE Done(man, None)
     IN /\ c.op # "none" => act
        /\ Commit(r.man, r.fault, << >>, {}, FALSE, External)
        /\ calls' = IF act THEN calls + 1 ELSE calls
        /\ input' = IF act THEN KeyRead(id, c, r) ELSE input
        /\ moved' = IF act THEN Moved(ViewMoves(id, c)) ELSE moved
        /\ firstTick' = IF id \in DOMAIN firstTick /\ firstTick[id] = 0
                          THEN [firstTick EXCEPT ![id] = tickNo] ELSE firstTick
  /\ idx' = idx + 1
  /\ log' = Logged("tick")
  /\ lastSpawn' = None
  /\ visits' = IF man.entities[idx] \in Range(man.dying) THEN visits
                ELSE [visits EXCEPT !.seen = Append(visits.seen, man.entities[idx])]
  /\ UNCHANGED <<clock, world, mark, propCall, resolved, pc, tickdt, tickNo, execd>>

\* one iteration of the dispatch loop: the tick behaviour of entities[idx]
TickEntity(c, ord, maxCalls) ==
  /\ fault = NoFault /\ pc = "dispatch"
  /\ idx <= Len(man.entities)
  /\ LET id == man.entities[idx]
         vw == EntityManager_view(man, id)
         act == c.op # "none" /\ vw.some /\ HasTick(vw.val.type_) /\ calls < maxCalls
         r == IF ~vw.some THEN Panic(man, [kind |-> "UnwrapNone"])
              ELSE IF act THEN ViewCall(man, vw.val, c, ord)
              ELSE Done(man, None)
     IN /\ c.op # "none" => act
        /\ Commit(r.man, r.fault, << >>, {}, FALSE, External)
        /\ calls' = IF act THEN calls + 1 ELSE calls
        /\ input' = IF act THEN KeyRead(id, c, r) ELSE input
        /\ moved' = IF act THEN Moved(ViewMoves(id, c)) ELSE moved
        /\ firstTick' = IF id \in DOMAIN firstTick /\ firstTick[id] = 0
                          THEN [firstTick EXCEPT ![id] = tickNo] ELSE firstTick
  /\ idx' = idx + 1
  /\ log' = Logged("tick")
  /\ lastSpawn' = None
  /\ visits' = [visits EXCEPT !.seen = Append(visits.seen, man.entities[idx])]
  /\ UNCHANGED <<clock, world, mark, propCall, resolved, pc, tickdt, tickNo, execd>>

DispatchEnd ==
  /\ fault = NoFault /\ pc = "dispatch"
  /\ idx > Len(man.entities)
  /\ pc' = "kill"
  /\ lastSpawn' = None
  /\ UNCHANGED <<clock, world, input, mark, visits, propCall, moved, resolved, man, idx, tickdt, fault, calls, tickNo, issued, declared,
                 dead, log, reqOrigin, execd, born, firstTick>>

\* one iteration of the kill loop
KillDrain ==
  /\ fault = NoFault /\ pc = "kill"
  /\ man.dying # << >>
  /\ LET dying == Head(man.dying)
         m1 == [man EXCEPT !.dying = Tail(man.dying)]
     IN Commit(EntityManager_kill(m1, dying), NoFault, << >>,
               {dying} \cap Live, FALSE, External)
  /\ log' = Logged("kill")
  /\ lastSpawn' = None
  /\ UNCHANGED <<clock, world, input, mark, visits, propCall, moved, resolved, pc, idx, tickdt, calls, tickNo, execd, firstTick>>

\* a bug: tick goes from the kill loop to the collision loop
KillDrainEnd_skips_spawn ==
  /\ fault = NoFault /\ pc = "kill"
  /\ man.dying = << >>
  /\ pc' = "collide"
  /\ lastSpawn' = None
  /\ UNCHANGED <<clock, world, input, mark, visits, propCall, moved, resolved, man, idx, tickdt, fault, calls, tickNo, issued, declared,
                 dead, log, reqOrigin, execd, born, firstTick>>

KillDrainEnd ==
  /\ fault = NoFault /\ pc = "kill"
  /\ man.dying = << >>
  /\ pc' = "spawn"
  /\ lastSpawn' = None
  /\ UNCHANGED <<clock, world, input, mark, visits, propCall, moved, resolved, man, idx, tickdt, fault, calls, tickNo, issued, declared,
                 dead, log, reqOrigin, execd, born, firstTick>>

\* one iteration of the spawn loop
SpawnDrain(ord) ==
  /\ fault = NoFault /\ pc = "spawn"
  /\ man.storage.spawn_requests # << >>
  /\ LET request == Head(man.storage.spawn_requests)
         origin == Head(reqOrigin)
         m1 == [man EXCEPT !.storage.spawn_requests = Tail(man.storage.spawn_requests)]
         r == RunRequest(m1, request, ord)
     IN /\ Commit(r.man, r.fault, r.spawned, r.killed, TRUE, origin)
        /\ firstTick' = Unticked(firstTick, r.spawned)
        /\ moved' = Moved(SpawnMoves(r.spawned) \cup RequestMoves(request, r.spawned))
        /\ execd' = execd \cup {[otick |-> origin.tick, ophase |-> origin.phase,
                                 tick |-> tickNo, phase |-> pc,
                                 done |-> Range(log)]}
  /\ log' = Logged("spawn")
  /\ lastSpawn' = None
  /\ UNCHANGED <<clock, world, input, mark, visits, propCall, resolved, pc, idx, tickdt, calls, tickNo>>

\* a bug: the spawn loop stops although requests are still queued
SpawnDrainEnd_early ==
  /\ fault = NoFault /\ pc = "spawn"
  /\ pc' = "collide"
  /\ lastSpawn' = None
  /\ UNCHANGED <<clock, world, input, mark, visits, propCall, moved, resolved, man, idx, tickdt, fault, calls, tickNo, issued, declared,
                 dead, log, reqOrigin, execd, born, firstTick>>

SpawnDrainEnd ==
  /\ fault = NoFault /\ pc = "spawn"
  /\ man.storage.spawn_requests = << >>
  /\ pc' = "collide"
  /\ lastSpawn' = None
  /\ UNCHANGED <<clock, world, input, mark, visits, propCall, moved, resolved, man, idx, tickdt, fault, calls, tickNo, issued, declared,
                 dead, log, reqOrigin, execd, born, firstTick>>

\* a bug: the collision loop unwraps the views instead of testing them
CollisionDrain_unwrap(ch) ==
  /\ fault = NoFault /\ pc = "collide"
  /\ man.storage.collisions # << >>
  /\ LET pair == Head(man.storage.collisions)
         m1 == [man EXCEPT !.storage.collisions = Tail(man.storage.collisions)]
         e1 == EntityManager_view(m1, pair[1])
         e2 == EntityManager_view(m1, pair[2])
         r == IF e1.some /\ e2.some THEN Collider_collide(m1, e1.val, e2.val, ch)
              ELSE Panic(m1, [kind |-> "UnwrapNone"])
     IN /\ Commit(r.man, r.fault, << >>, {}, FALSE, External)
        /\ resolved' = Resolve([pair |-> pair, invoked |-> e1.some /\ e2.some])
        /\ moved' = Moved(RespawnMoves(man, m1, r.man))
        /\ mark' = Marked(m1, r.man)
  /\ log' = Logged("collide")
  /\ lastSpawn' = None
  /\ UNCHANGED <<clock, world, input, visits, propCall, pc, idx, tickdt, calls, tickNo, execd, firstTick>>

\* one iteration of the collision loop
CollisionDrain(ch) ==
  /\ fault = NoFault /\ pc = "collide"
  /\ man.storage.collisions # << >>
  /\ LET pair == Head(man.storage.collisions)
         m1 == [man EXCEPT !.storage.collisions = Tail(man.storage.collisions)]
         e1 == EntityManager_view(m1, pair[1])
         e2 == EntityManager_view(m1, pair[2])
         r == IF e1.some /\ e2.some THEN Collider_collide(m1, e1.val, e2.val, ch)
              ELSE Done(m1, None)
     IN /\ Commit(r.man, r.fault, << >>, {}, FALSE, External)
        /\ resolved' = Resolve([pair |-> pair, invoked |-> e1.some /\ e2.some])
        /\ moved' = Moved(RespawnMoves(man, m1, r.man))
        /\ mark' = Marked(m1, r.man)
  /\ log' = Logged("collide")
  /\ lastSpawn' = None
  /\ UNCHANGED <<clock, world, input, visits, propCall, pc, idx, tickdt, calls, tickNo, execd, firstTick>>

\* a bug: the collision loop stops although events are still queued
CollisionDrainEnd_early ==
  /\ fault = NoFault /\ pc = "collide"
  /\ pc' = "idle"
  /\ log' = << >>
  /\ resolved' = << >>
  /\ mark' = None
  /\ lastSpawn' = None
  /\ UNCHANGED <<clock, world, input, visits, propCall, moved, man, idx, tickdt, fault, calls, tickNo, issued, declared,
                 dead, reqOrigin, execd, born, firstTick>>

\* the collision loop ends and tick returns
CollisionDrainEnd ==
  /\ fault = NoFault /\ pc = "collide"
  /\ man.storage.collisions = << >>
  /\ pc' = "idle"
  /\ log' = << >>
  /\ resolved' = << >>
  /\ mark' = None
  /\ lastSpawn' = None
  /\ UNCHANGED <<clock, world, input, visits, propCall, moved, man, idx, tickdt, fault, calls, tickNo, issued, declared,
                 dead, reqOrigin, execd, born, firstTick>>

Next ==
  \/ \E in \in SpawnInputs : \E ord \in Orders(man, SpawnScan(in.components)) :
       Spawn(in, ord, MaxCalls)
  \/ \E entity \in Ids(man) : Kill(entity, MaxCalls)
  \/ \E entity \in Ids(man), c \in ViewOps : \E ord \in Orders(man, ViewScan(c)) :
       View(entity, c, ord, MaxCalls)
  \/ Draw(MaxCalls)
  \/ \E dt \in DtInputs : TickBegin(dt, MaxCalls)
  \/ \E c \in ViewOps \cup {[op |-> "none"]} : \E ord \in Orders(man, ViewScan(c)) :
       TickEntity(c, ord, MaxCalls)
  \/ DispatchEnd
  \/ KillDrain
  \/ KillDrainEnd
  \/ \E ord \in Orders(man, RequestScan(man.storage.spawn_requests)) : SpawnDrain(ord)
  \/ SpawnDrainEnd
  \/ \E ch \in CollisionChoices(man) : CollisionDrain(ch)
  \/ CollisionDrainEnd

Spec == Init /\ [][Next]_vars

FruitNext ==
  \/ \E ord \in Orders(man, {SnakeStart}) : SnakeNew(ord, FruitMaxCalls)
  \/ \E pos \in FruitPosInputs :
       \E ord \in Orders(man, {[x |-> pos.x, y |-> pos.y, z |-> 0]}) :
         FruitPutAt(pos, ord, FruitMaxCalls)
  \/ \E in \in BoundedInputs :
       \E ord \in Orders(man, {[x |-> in.pos.x, y |-> in.pos.y, z |-> 0]}) :
         FruitBounded(in, ord, FruitMaxCalls)
  \/ Draw(FruitMaxCalls)
  \/ \E dt \in DtInputs : TickBegin(dt, FruitMaxCalls)
  \/ \E c \in FruitViewOps \cup {[op |-> "none"]} : \E ord \in Orders(man, ViewScan(c)) :
       TickEntity(c, ord, FruitMaxCalls)
  \/ DispatchEnd
  \/ KillDrain
  \/ KillDrainEnd
  \/ \E ord \in Orders(man, RequestScan(man.storage.spawn_requests)) : SpawnDrain(ord)
  \/ SpawnDrainEnd
  \/ \E ch \in CollisionChoices(man) : CollisionDrain(ch)
  \/ CollisionDrainEnd

FruitSpec == Init /\ [][FruitNext]_vars

\* as FruitSpec, with fruits that are out of respawns only: the first
\* snake-head/fruit pair of a fruit queues its kill
KillNext ==
  \/ \E ord \in Orders(man, {SnakeStart}) : SnakeNew(ord, FruitMaxCalls)
  \/ \E in \in {b \in BoundedInputs : b.respawns = 0} :
       \E ord \in Orders(man, {[x |-> in.pos.x, y |-> in.pos.y, z |-> 0]}) :
         FruitBounded(in, ord, FruitMaxCalls)
  \/ Draw(FruitMaxCalls)
  \/ \E dt \in DtInputs : TickBegin(dt, FruitMaxCalls)
  \/ \E c \in KillViewOps \cup {[op |-> "none"]} : \E ord \in Orders(man, ViewScan(c)) :
       TickEntity(c, ord, FruitMaxCalls)
  \/ DispatchEnd
  \/ KillDrain
  \/ KillDrainEnd
  \/ \E ord \in Orders(man, RequestScan(man.storage.spawn_requests)) : SpawnDrain(ord)
  \/ SpawnDrainEnd
  \/ \E ch \in CollisionChoices(man) : CollisionDrain(ch)
  \/ CollisionDrainEnd

KillSpec == Init /\ [][KillNext]_vars

TickNext ==
  \/ \E in \in TickSpawnInputs : \E ord \in Orders(man, SpawnScan(in.components)) :
       Spawn(in, ord, TickMaxCalls)
  \/ \E entity \in Ids(man) : Kill(entity, TickMaxCalls)
  \/ \E entity \in Ids(man), c \in TickViewOps : \E ord \in Orders(man, ViewScan(c)) :
       View(entity, c, ord, TickMaxCalls)
  \/ \E key \in KeyInputs : KeyPress(key, TickMaxCalls)
  \/ \E pos \in MouseInputs : MouseMove(pos, TickMaxCalls)
  \/ \E dt \in DtInputs : TickBegin(dt, TickMaxCalls)
  \/ \E c \in TickViewOps \cup {[op |-> "none"]} : \E ord \in Orders(man, ViewScan(c)) :
       TickEntity(c, ord, TickMaxCalls)
  \/ DispatchEnd
  \/ KillDrain
  \/ KillDrainEnd
  \/ \E ord \in Orders(man, RequestScan(man.storage.spawn_requests)) : SpawnDrain(ord)
  \/ SpawnDrainEnd
  \/ \E ch \in CollisionChoices(man) : CollisionDrain(ch)
  \/ CollisionDrainEnd

TickSpec == Init /\ [][TickNext]_vars

\* entities that move during the ticks: spawns between ticks, and the calls of
\* the tick behaviours
\* spawn with component lists in either order, kill and set_position, by the
\* owner of the manager
SpawnNext ==
  \/ \E in \in OrderSpawnInputs : \E ord \in Orders(man, SpawnScan(in.components)) :
       Spawn(in, ord, SpawnMaxCalls)
  \/ \E entity \in Ids(man) : Kill(entity, SpawnMaxCalls)
  \/ \E entity \in Ids(man), c \in OrderViewOps : \E ord \in Orders(man, ViewScan(c)) :
       View(entity, c, ord, SpawnMaxCalls)

SpawnSpec == Init /\ [][SpawnNext]_vars

CollideNext ==
  \/ \E in \in TickSpawnInputs : \E ord \in Orders(man, SpawnScan(in.components)) :
       Spawn(in, ord, CollideMaxCalls)
  \/ \E dt \in DtInputs : TickBegin(dt, CollideMaxCalls)
  \/ \E c \in CollideViewOps \cup {[op |-> "none"]} : \E ord \in Orders(man, ViewScan(c)) :
       TickEntity(c, ord, CollideMaxCalls)
  \/ DispatchEnd
  \/ KillDrain
  \/ KillDrainEnd
  \/ \E ord \in Orders(man, RequestScan(man.storage.spawn_requests)) : SpawnDrain(ord)
  \/ SpawnDrainEnd
  \/ \E ch \in CollisionChoices(man) : CollisionDrain(ch)
  \/ CollisionDrainEnd

CollideSpec == Init /\ [][CollideNext]_vars

\* entities with and without a property bag, and the calls of a view on the bag
PropertyNext ==
  \/ \E in \in PropertySpawnInputs : Spawn(in, << >>, PropertyMaxCalls)
  \/ \E entity \in Ids(man), c \in PropertyViewOps :
       View(entity, c, << >>, PropertyMaxCalls)

PropertySpec == Init /\ [][PropertyNext]_vars

\* entities with and without a Timer, with tick and set_threshold on the Timer
\* that spawn made
TimerNext ==
  \/ \E in \in SpawnInputs : Spawn(in, << >>, TimerMaxCalls)
  \/ \E entity \in Ids(man), c \in TimerViewOps : View(entity, c, << >>, TimerMaxCalls)

TimerSpec == Init /\ [][TimerNext]_vars

\* entities with and without a Timer, and calls on their views: access_timer
\* with callbacks that call a view, and get_position
BorrowNext ==
  \/ \E in \in SpawnInputs : Spawn(in, << >>, BorrowMaxCalls)
  \/ \E entity \in Ids(man), c \in BorrowViewOps(man) :
       View(entity, c, << >>, BorrowMaxCalls)

BorrowSpec == Init /\ [][BorrowNext]_vars

\* key presses and pointer positions sent between ticks, entities with an
\* Input spawned and killed between ticks, get_key and get_mouse by
\* the owner and by the tick behaviours; nothing here feeds the kill, spawn or
\* collision queue, so their loops end at once
InputNext ==
  \/ \E in \in TickSpawnInputs : \E ord \in Orders(man, SpawnScan(in.components)) :
       Spawn(in, ord, InputMaxCalls)
  \/ \E entity \in Ids(man) : Kill(entity, InputMaxCalls)
  \/ \E entity \in Ids(man), c \in InputViewOps : View(entity, c, << >>, InputMaxCalls)
  \/ \E key \in InputKeyInputs : KeyPress(key, InputMaxCalls)
  \/ \E pos \in InputMouseInputs : MouseMove(pos, InputMaxCalls)
  \/ \E dt \in DtInputs : TickBegin(dt, InputMaxCalls)
  \/ \E c \in {[op |-> "get_key"], [op |-> "none"]} : TickEntity(c, << >>, InputMaxCalls)
  \/ DispatchEnd
  \/ KillDrainEnd
  \/ SpawnDrainEnd
  \/ CollisionDrainEnd

InputSpec == Init /\ [][InputNext]_vars

\* the snake and one fruit of a room, the head set into the cell of the
\* fruit between ticks, and ticks whose collision loop hands the pairs to
\* fruit::respawn and snake::grow
RespawnNext ==
  \/ \E ord \in Orders(man, {SnakeStart}) : SnakeNew(ord, RespawnMaxCalls)
  \/ \E in \in RespawnInputs :
       \E ord \in Orders(man, {[x |-> in.pos.x, y |-> in.pos.y, z |-> 0]}) :
         RoomFruit(in, ord, RespawnMaxCalls)
  \/ \E entity \in Ids(man), c \in RespawnViewOps : \E ord \in Orders(man, ViewScan(c)) :
       View(entity, c, ord, RespawnMaxCalls)
  \/ \E dt \in DtInputs : TickBegin(dt, RespawnMaxCalls)
  \/ TickEntity([op |-> "none"], << >>, RespawnMaxCalls)
  \/ DispatchEnd
  \/ KillDrain
  \/ KillDrainEnd
  \/ SpawnDrainEnd
  \/ \E ch \in CollisionChoices(man) : CollisionDrain(ch)
  \/ CollisionDrainEnd

RespawnSpec == Init /\ [][RespawnNext]_vars

\* ------------------------------------------------ a room and its hallway
\* the time the camera takes to pan: the last room is destroyed when a pan
\* that began after the head entered the hallway is over
LerpMax == 1000

HallDtInputs == {STEP, LerpMax}

\* the rooms drawn: a room of 4 x 4 cells round the snake, with a hallway of
\* width 2 (a gap of 4 cells) and length 2 on the right or below
HallInputs ==
  {[position |-> [x |-> 0, y |-> 0], side |-> s, dimensions |-> [x |-> 4, y |-> 4],
    width |-> 2, length |-> 2] : s \in {"Right", "Down"}}

SnakeHeadId(m) == m.entities[CHOOSE i \in DOMAIN m.types : m.types[i] = "SnakeHead"]

\* the set_position calls done for the entities spawned, read from the
\* manager they left
PlacedMoves(m, spawned) ==
  {<<spawned[i].id, m.storage.positions[spawned[i].id]>> :
     i \in {k \in 1..Len(spawned) : spawned[k].id \in DOMAIN m.storage.positions}}

\* Game::tick has called man.tick and has not yet looked at its listeners
GameTicking == tickNo > world.game.ticks

\* Receiver::try_recv().is_ok() on the listener rx: a message sent on its
\* channel has not been taken
Receiver_pending(m, taken, rx) ==
  rx.some /\ m.channels[rx.val] > (IF rx.val \in DOMAIN taken THEN taken[rx.val] ELSE 0)

\* the counts of messages taken, after one more is taken from the listener rx
Receiver_take(m, taken, rx) ==
  [i \in 1..Len(m.channels) |->
     (IF i \in DOMAIN taken THEN taken[i] ELSE 0) + (IF i = rx.val THEN 1 ELSE 0)]

\* a room generator makes the room of the game: Room::empty
RoomEmpty(in, asc, maxCalls) ==
  /\ fault = NoFault /\ pc = "idle"
  /\ calls < maxCalls
  /\ Count("SnakeHead") = 1
  /\ ~world.room.some /\ ~GameTicking
  /\ \E r \in {Room_empty(man, in.position, in.side, in.dimensions, SnakeHeadId(man),
                          in.width, in.length, asc)} :
     /\ Commit(r.man, r.fault, r.spawned, r.killed, FALSE, External)
     /\ firstTick' = Unticked(firstTick, r.spawned)
     /\ lastSpawn' = Some(r.spawned[Len(r.spawned)].id)
     /\ moved' = Moved(SpawnMoves(r.spawned) \cup PlacedMoves(r.man, r.spawned))
     /\ world' = [world EXCEPT !.room = Some(r.room)]
  /\ calls' = calls + 1
  /\ propCall' = None
  /\ UNCHANGED <<clock, input, mark, visits, resolved, pc, idx, tickdt, tickNo, log, execd>>

\* the game after a call of open_hallway that gave r: the listeners are kept
\* when there are some
Game_opened(game, r) ==
  IF r.ret.some
    THEN [game EXCEPT !.pan_to_hall_trigger = Some(r.ret.val[1]),
                      !.pan_to_room_trigger = Some(r.ret.val[2])]
    ELSE game

\* the record of the calls of open_hallway on the room, after one that gave r
Hallway_called(h, r) == [calls |-> h.calls + 1, ret |-> r.ret]

\* Game::key_press with Key::B, between ticks: open_hallway on the room of
\* the game, which is the room made as long as the head has not entered the
\* hallway
KeyB(asc, maxCalls) ==
  /\ fault = NoFault /\ pc = "idle"
  /\ calls < maxCalls
  /\ world.room.some /\ ~GameTicking /\ world.game.next_rooms = 0
  /\ \E r \in {Room_open_hallway(man, world.room.val, asc)} :
     /\ Commit(r.man, r.fault, r.spawned, r.killed, FALSE, External)
     /\ firstTick' = Unticked(firstTick, r.spawned)
     /\ lastSpawn' = IF r.spawned = << >> THEN None
                     ELSE Some(r.spawned[Len(r.spawned)].id)
     /\ moved' = Moved(SpawnMoves(r.spawned) \cup PlacedMoves(r.man, r.spawned))
     /\ world' = [world EXCEPT !.room = Some(r.room),
                               !.hallway = Hallway_called(@, r),
                               !.game = Game_opened(@, r)]
  /\ calls' = calls + 1
  /\ propCall' = None
  /\ UNCHANGED <<clock, input, mark, visits, resolved, pc, idx, tickdt, tickNo, log, execd>>

\* Game::tick up to its call of man.tick; the model follows the room until
\* the pan after which the game destroys it is over
GameTick(dt, maxCalls) ==
  /\ world.room.some /\ ~GameTicking
  /\ world.game.lerping => world.game.accum < LerpMax
  /\ TickBegin(dt, maxCalls)

\* the pan of the camera in a tick given dt
Game_lerp(game, dt) ==
  IF ~game.lerping THEN game
  ELSE IF game.accum < LerpMax THEN [game EXCEPT !.accum = @ + dt]
  ELSE [game EXCEPT !.lerping = FALSE, !.accum = 0]

\* the hall enter trigger of Game::tick: the camera pans to the hallway and
\* the next room is generated
Game_hall_enter(m, game) ==
  IF Receiver_pending(m, game.taken, game.pan_to_hall_trigger)
    THEN [game EXCEPT !.taken = Receiver_take(m, game.taken, game.pan_to_hall_trigger),
                      !.lerping = TRUE,
                      !.next_rooms = @ + 1]
    ELSE game

\* the hall leave trigger of Game::tick: the camera pans to the new room
Game_hall_leave(m, game) ==
  IF Receiver_pending(m, game.taken, game.pan_to_room_trigger)
    THEN [game EXCEPT !.taken = Receiver_take(m, game.taken, game.pan_to_room_trigger),
                      !.lerping = TRUE]
    ELSE game

\* Game::tick after man.tick has returned: the listeners, and the hall open
\* trigger; open: a message waits on open_hall_trigger, whose sender the
\* logic of the room holds
GameTickEnd(open, asc) ==
  /\ fault = NoFault /\ pc = "idle"
  /\ GameTicking /\ world.room.some
  /\ \E game \in {Game_hall_leave(man, Game_hall_enter(man, Game_lerp(world.game, tickdt)))} :
     /\ open => game.next_rooms = 0
     /\ \E r \in {IF open THEN Room_open_hallway(man, world.room.val, asc)
                  ELSE OpenHallwayNone(man, world.room.val)} :
        /\ Commit(r.man, r.fault, r.spawned, r.killed, FALSE, External)
        /\ firstTick' = Unticked(firstTick, r.spawned)
        /\ lastSpawn' = IF r.spawned = << >> THEN None
                        ELSE Some(r.spawned[Len(r.spawned)].id)
        /\ moved' = Moved(SpawnMoves(r.spawned) \cup PlacedMoves(r.man, r.spawned))
        /\ world' = [world EXCEPT
                       !.room = Some(r.room),
                       !.hallway = IF open THEN Hallway_called(@, r) ELSE @,
                       !.game = [Game_opened(game, r) EXCEPT !.ticks = tickNo]]
  /\ propCall' = None
  /\ UNCHANGED <<clock, input, mark, visits, resolved, pc, idx, tickdt, tickNo, log, execd,
                 calls>>

\* the steps the tick of the snake can take the head with: one cell up, down,
\* left or right
HeadSteps(m) ==
  IF /\ pc = "dispatch" /\ idx <= Len(m.entities)
     /\ m.types[idx] = "SnakeHead"
     /\ m.entities[idx] \in DOMAIN m.storage.positions
    THEN LET p == m.storage.positions[m.entities[idx]] IN
         {[op |-> "set_position",
           pos |-> [x |-> p.x + Vec2FromDirection(s).x * Sub,
                    y |-> p.y + Vec2FromDirection(s).y * Sub, z |-> p.z]] :
            s \in {"Up", "Down", "Left", "Right"}}
    ELSE {}

\* no fruit is in the room: the collision loop has nothing to choose
HallChoices == {[ord |-> << >>, checked |-> TRUE, offset |-> Vec2Default]}

\* the snake, the room made round it with its hallway, the opening of the
\* hallway by the key B or by the hall open trigger, and the ticks of the
\* game, in which the head goes from cell to cell
HallNext ==
  \/ \E ord \in Orders(man, {SnakeStart}) : SnakeNew(ord, HallMaxCalls)
  \/ \E in \in HallInputs, asc \in BOOLEAN : RoomEmpty(in, asc, HallMaxCalls)
  \/ \E asc \in BOOLEAN : KeyB(asc, HallMaxCalls)
  \/ \E dt \in HallDtInputs : GameTick(dt, HallMaxCalls)
  \/ \E c \in HeadSteps(man) \cup {[op |-> "none"]} : \E ord \in Orders(man, ViewScan(c)) :
       TickEntity(c, ord, HallMaxCalls)
  \/ DispatchEnd
  \/ KillDrain
  \/ KillDrainEnd
  \/ SpawnDrainEnd
  \/ \E ch \in HallChoices : CollisionDrain(ch)
  \/ CollisionDrainEnd
  \/ \E open \in BOOLEAN, asc \in BOOLEAN : GameTickEnd(open, asc)

HallSpec == Init /\ [][HallNext]_vars

\* ------------------------------------------------ the tutorial's logic
TutDtInputs == {500, 1500, 3001}

\* the tick of the snake takes a key that turns it: move_tx.send(())
SnakeMoved ==
  /\ calls < TutMaxCalls
  /\ world' = [world EXCEPT !.tut.snek_move_rx = @ + 1]
  /\ calls' = calls + 1
  /\ UNCHANGED <<clock, man, pc, idx, tickdt, fault, tickNo, issued, declared, dead,
                 log, reqOrigin, execd, born, firstTick, lastSpawn, resolved, moved,
                 propCall, visits, mark, input>>

\* the tick behaviour of the Logic entity calls the closure with dt
TutControlsTick(dt) ==
  /\ calls < TutMaxCalls
  /\ LET seen == world.observed \/ world.tut.snek_move_rx > 0 IN
     world' = [world EXCEPT !.tut = tut_controls_on_tick(world.tut, dt),
                            !.observed = seen,
                            !.before = IF seen THEN @ ELSE @ + dt,
                            !.since = IF seen THEN @ + dt ELSE @]
  /\ calls' = calls + 1
  /\ UNCHANGED <<clock, man, pc, idx, tickdt, fault, tickNo, issued, declared, dead,
                 log, reqOrigin, execd, born, firstTick, lastSpawn, resolved, moved,
                 propCall, visits, mark, input>>

\* the closure called tick after tick, and the snake moving between ticks
TutNext ==
  \/ SnakeMoved
  \/ \E dt \in TutDtInputs : TutControlsTick(dt)

TutSpec == Init /\ [][TutNext]_vars

\* ------------------------------------------------------------- timers
ThresholdInputs == {STEP, 200}

CooldownInputs == {100, 150}

ClockDtInputs == {0, 50, 100, 400}

managerVars ==
  <<man, pc, idx, tickdt, fault, tickNo, issued, declared, dead,
    log, reqOrigin, execd, born, firstTick, lastSpawn, resolved, moved,
    propCall, visits, mark, input, world>>

TimeInit ==
  /\ ManagerInit
  /\ \E threshold \in ThresholdInputs : \E cooldown \in CooldownInputs :
       clock = Clock(Threshold_new(threshold), Cooldown_new(cooldown))

\* timer.tick(dt)
TimerTick(dt) ==
  /\ calls < TimeMaxCalls
  /\ LET r == Threshold_tick(clock.timer, dt)
         n == clock.ticks + 1
     IN clock' = [clock EXCEPT !.timer = r.t,
                               !.ticks = n,
                               !.dts = clock.dts \cup {dt},
                               !.fires = IF r.fired THEN Append(clock.fires, n)
                                         ELSE clock.fires,
                               !.last = Some([acc |-> clock.timer.acc, dt |-> dt,
                                              fired |-> r.fired])]
  /\ calls' = calls + 1
  /\ UNCHANGED managerVars

\* timer.reset()
TimerReset ==
  /\ calls < TimeMaxCalls
  /\ clock' = [clock EXCEPT !.timer = Threshold_reset(clock.timer),
                            !.ticks = 0, !.dts = {}, !.fires = << >>, !.last = None]
  /\ calls' = calls + 1
  /\ UNCHANGED managerVars

\* cooldown.cool_down()
CooldownArm ==
  /\ calls < TimeMaxCalls
  /\ clock' = [clock EXCEPT !.cooldown = Cooldown_cool_down(clock.cooldown),
                            !.armed = TRUE, !.elapsed = 0]
  /\ calls' = calls + 1
  /\ UNCHANGED managerVars

\* cooldown.tick(dt)
CooldownTick(dt) ==
  /\ calls < TimeMaxCalls
  /\ clock' = [clock EXCEPT !.cooldown = Cooldown_tick(clock.cooldown, dt),
                            !.elapsed = clock.elapsed + dt]
  /\ calls' = calls + 1
  /\ UNCHANGED managerVars

\* cooldown.reset()
CooldownReset ==
  /\ calls < TimeMaxCalls
  /\ clock' = [clock EXCEPT !.cooldown = Cooldown_reset(clock.cooldown),
                            !.armed = FALSE, !.elapsed = 0]
  /\ calls' = calls + 1
  /\ UNCHANGED managerVars

TimeNext ==
  \/ \E dt \in ClockDtInputs : TimerTick(dt)
  \/ TimerReset
  \/ CooldownArm
  \/ \E dt \in ClockDtInputs : CooldownTick(dt)
  \/ CooldownReset

TimeSpec == TimeInit /\ [][TimeNext]_vars

\* ------------------------------------------------------------- properties
HasEntry(id, c) == id \in DOMAIN Table(man.storage, c)

TypeOf(id) == EntityManager_view(man, id).val.type_

\* the getter of each component kind that has one, called on the view v
GetterCall(m, v, c) ==
  CASE c = "Position" -> EntityView_get_position(m, v)
    [] c = "Direction" -> EntityView_get_direction(m, v)
    [] c = "BodyLength" -> EntityView_get_body_length(m, v)
    [] c = "SelfDestruct" -> EntityView_get_self_destruct(m, v)
    [] c = "Scale" -> EntityView_get_scale(m, v)
    [] c = "Speed" -> EntityView_get_speed(m, v)
    [] c = "Animation" -> EntityView_get_animation(m, v)
    [] c = "Color" -> EntityView_get_color(m, v)
    [] c = "Sound" -> EntityView_get_sound(m, v)
    [] c = "Input" -> EntityView_get_mouse(m, v)
    [] c = "Timer" -> EntityView_access_timer(m, v, [fn |-> "read"])

GetterKinds ==
  {"Position", "Direction", "BodyLength", "SelfDestruct", "Scale", "Speed",
   "Animation", "Color", "Sound", "Input", "Timer"}

\* the documented default of each kind, as its getter returns it
DefaultOf(c) ==
  CASE c = "Position" -> [x |-> 0, y |-> 0, z |-> 0]
    [] c = "Direction" -> "None"
    [] c = "BodyLength" -> 0
    [] c = "SelfDestruct" -> 0
    [] c = "Scale" -> [x |-> 1, y |-> 1]
    [] c = "Speed" -> 0
    [] c = "Animation" -> "Idle"
    [] c = "Color" -> "None"

DefaultKinds ==
  {"Position", "Direction", "BodyLength", "SelfDestruct", "Scale", "Speed",
   "Animation", "Color"}

\* C1: every id returned by spawn is strictly greater than every id returned
\* before it, whatever kills (direct or drained) and queued spawns came between
C1_IdsStrictlyIncreasing ==
  \A i, j \in 1..Len(issued) : i < j => issued[i] < issued[j]

\* a spawn call has just returned after a kill removed a live entity
C1_Witness == lastSpawn.some /\ dead # {} /\ Len(issued) >= 2

\* C2: an id on which kill acted while live is in no later state in the
\* directory, in a component table or in the property bag, and view(id) is None
C2_KilledStaysGone ==
  \A id \in dead :
    /\ id \notin Range(man.entities)
    /\ \A c \in Components : ~HasEntry(id, c)
    /\ ~EntityManager_view(man, id).some

\* an entity that had components and a property bag was killed, and a later
\* spawn has run
C2_Witness ==
  \E id \in dead : "Properties" \in declared[id] /\ man.tracker > id + 1

\* C3: every id with an entry in a component table or in the property bag is
\* in the directory
C3_NoStaleEntries ==
  \A c \in Components : DOMAIN Table(man.storage, c) \subseteq Range(man.entities)

\* entities with entries were killed while another one keeps its entries
C3_Witness ==
  /\ \E id \in dead : "Position" \in declared[id]
  /\ \E id \in Live : HasEntry(id, "Position")

\* C4: for every live entity and component kind, the kind's table holds an
\* entry for the entity iff the entity was spawned with that kind
C4_ComponentsFixedAtSpawn ==
  \A id \in Live : \A c \in Components : HasEntry(id, c) <=> c \in declared[id]

\* C5: the directory is strictly ascending, and binary search finds an id
\* exactly when the id is in the directory
C5_DirectorySorted ==
  /\ \A i, j \in 1..Len(man.entities) : i < j => man.entities[i] < man.entities[j]
  /\ \A id \in 0..man.tracker :
       LET index == binary_search(man.entities, id) IN
       /\ index # 0 <=> id \in Range(man.entities)
       /\ index # 0 => man.entities[index] = id

\* the entity in the middle of the directory was killed
C5_Witness ==
  /\ Len(man.entities) >= 2
  /\ \E id \in dead : man.entities[1] < id /\ id < man.entities[Len(man.entities)]

AllComponents ==
  <<"Position", "Direction", "Collider", "Input", "BodyLength", "SelfDestruct",
    "Scale", "Timer", "Spawner", "Animation", "Color", "Speed", "Properties",
    "Sound">>

\* the getters of a freshly spawned id return the defaults of its kinds
FreshDefaults(m, id, kinds) ==
  LET vw == EntityManager_view(m, id) IN
  /\ vw.some
  /\ \A c \in kinds \cap DefaultKinds :
       GetterCall(m, vw.val, c) = Done(m, DefaultOf(c))
  /\ "Timer" \in kinds =>
       LET r == GetterCall(m, vw.val, "Timer") IN r.fault = NoFault /\ r.ret.acc = 0

\* C6: right after spawn(tag, components) the getter of every kind in the list
\* succeeds and returns the kind's default, and a Timer has accumulator 0; this
\* for the spawn that has just run and for a spawn of every kind from here
C6_SpawnDefaults ==
  /\ lastSpawn.some => FreshDefaults(man, lastSpawn.val, declared[lastSpawn.val])
  /\ \A ord \in Orders(man, SpawnScan(AllComponents)) :
       LET r == EntityManager_spawn(man, "Basic", AllComponents, ord) IN
       FreshDefaults(r.man, r.id, Range(AllComponents))

\* a snake head has just been spawned into a manager that already has entities
C6_Witness ==
  /\ lastSpawn.some
  /\ "Timer" \in declared[lastSpawn.val]
  /\ Len(man.entities) >= 2

\* C7: for every live entity and every kind it was not spawned with, the getter
\* of the kind panics with MissingComponent naming the entity's type and the
\* kind, and changes nothing
C7_GetterFaultsWhenUndeclared ==
  \A id \in Live : \A c \in GetterKinds \ declared[id] :
    LET r == GetterCall(man, EntityManager_view(man, id).val, c) IN
    /\ r.fault = MissingComponent(TypeOf(id), c)
    /\ r.man = man

\* the place of each phase of tick in the order of the code
Rank(w) ==
  CASE w = "idle" -> 0
    [] w = "input" -> 1
    [] w = "tick" -> 2
    [] w = "dispatch" -> 2
    [] w = "kill" -> 3
    [] w = "spawn" -> 4
    [] w = "collide" -> 5

\* what a step did, read from the state before and after it
DeliveredInput ==
  \/ Len(man'.keystrokes) < Len(man.keystrokes)
  \/ Len(man'.mouse_movements) < Len(man.mouse_movements)

DirectoryChanged == man'.entities # man.entities \/ man'.types # man.types

TookKill == Len(man'.dying) < Len(man.dying)

TookSpawn == execd' # execd \/ Len(issued') > Len(issued)

TookCollision == Len(man'.storage.collisions) < Len(man.storage.collisions)

\* C8: inside one tick the input events are delivered first, then the entities
\* are ticked, then the kill queue, the spawn queue and the collision queue are
\* drained, each loop run to its end before the next begins, and the directory
\* does not change while the entities are ticked
C8_PhaseOrder ==
  [][ /\ (pc' # pc =>
            \/ (pc = "idle" /\ pc' = "dispatch")
            \/ (pc = "dispatch" /\ pc' = "kill" /\ idx > Len(man.entities))
            \/ (pc = "kill" /\ pc' = "spawn" /\ man.dying = << >>)
            \/ (pc = "spawn" /\ pc' = "collide" /\ man.storage.spawn_requests = << >>)
            \/ (pc = "collide" /\ pc' = "idle" /\ man.storage.collisions = << >>))
      /\ (DeliveredInput => pc = "idle" /\ pc' = "dispatch"
                            /\ man'.keystrokes = << >>
                            /\ man'.mouse_movements = << >>)
      /\ (pc = "dispatch" => ~DirectoryChanged)
      /\ (pc # "idle" /\ TookKill => pc = "kill")
      /\ (pc # "idle" /\ DirectoryChanged => pc \in {"kill", "spawn"})
      /\ (pc # "idle" /\ TookSpawn => pc = "spawn")
      /\ (TookCollision => pc = "collide")
      /\ (\A i \in 1..Len(log') - 1 : Rank(log'[i]) < Rank(log'[i + 1])) ]_vars

\* a tick in which every phase had work to do
C8_Witness == log = <<"input", "tick", "kill", "spawn", "collide">>

\* C9: a spawn request made by a tick behaviour of tick N is run in tick N by the
\* spawn loop, after the kill loop and before the collision loop, and what it
\* spawns is first ticked in tick N+1
C9_RequestRunsSameTick ==
  /\ \A e \in execd :
       e.ophase = "dispatch" =>
         e.tick = e.otick /\ e.phase = "spawn" /\ "collide" \notin e.done
  /\ \A i \in 1..Len(reqOrigin) :
       reqOrigin[i].phase = "dispatch" =>
         reqOrigin[i].tick = tickNo /\ pc \in {"dispatch", "kill", "spawn"}
  /\ \A id \in DOMAIN born :
       born[id].ophase = "dispatch" =>
         /\ born[id].tick = born[id].otick
         /\ firstTick[id] \in {0, born[id].tick + 1}
         /\ (/\ id \in Live
             /\ fault = NoFault
             /\ \/ tickNo > born[id].tick + 1
                \/ tickNo = born[id].tick + 1 /\ pc # "dispatch")
            => firstTick[id] = born[id].tick + 1

\* an entity spawned by a request of tick N was ticked in tick N+1
C9_Witness ==
  \E id \in DOMAIN born :
    /\ born[id].ophase = "dispatch"
    /\ firstTick[id] = born[id].tick + 1

\* C10: a spawn request enqueued while the spawn queue is drained is not run in
\* that tick but in the spawn loop of the next tick
C10_NestedRequestWaits ==
  \A e \in execd : e.ophase = "spawn" => e.tick = e.otick + 1

\* C10 as the code has it: a spawn request enqueued while the spawn queue is
\* drained is run in that same drain, which ends only when the queue is empty;
\* none is left for a later tick
C10_NestedRequestSamePass ==
  /\ \A e \in execd :
       e.ophase = "spawn" => e.tick = e.otick /\ e.phase = "spawn"
  /\ \A i \in 1..Len(reqOrigin) :
       reqOrigin[i].phase = "spawn" => reqOrigin[i].tick = tickNo /\ pc = "spawn"

\* a request enqueued by a running request has been run
C10_Witness == \E e \in execd : e.ophase = "spawn"

\* the id is in no table of the manager m and not in its directory
Gone(m, id) ==
  /\ id \notin Range(m.entities)
  /\ \A c \in Components : id \notin DOMAIN Table(m.storage, c)
  /\ ~EntityManager_view(m, id).some

\* C11: a kill asked through a view only appends the view's id to the kill
\* queue, and the entity stays in the directory and in its tables, with a view,
\* through every step that is not a kill; a kill by the manager (a direct call
\* or the kill loop of tick) has removed the id everywhere when the step ends
C11_ViewKillDeferred ==
  [][ /\ Len(man'.dying) > Len(man.dying) =>
           /\ Len(man'.dying) = Len(man.dying) + 1
           /\ man'.dying[Len(man'.dying)] \in Range(man.entities)
           /\ man' = [man EXCEPT !.dying = man'.dying]
           /\ EntityManager_view(man', man'.dying[Len(man'.dying)]).some
      /\ dead' = dead =>
           /\ man'.entities = man.entities \/ Len(man'.entities) > Len(man.entities)
           /\ \A id \in Range(man.dying) \cap Range(man.entities) :
                /\ id \in Range(man'.entities)
                /\ \A c \in Components :
                     id \in DOMAIN Table(man.storage, c)
                       => id \in DOMAIN Table(man'.storage, c)
      /\ \A id \in dead' \ dead : Gone(man', id) ]_vars

\* the kill loop is about to remove an entity that a view asked to kill
C11_Witness ==
  /\ pc = "kill"
  /\ man.dying # << >>
  /\ Head(man.dying) \in Range(man.entities)
  /\ EntityManager_view(man, Head(man.dying)).some

\* C12: kill of an id that is not live (not yet issued, already killed, or
\* met again by the kill loop) changes nothing: the manager after the call is
\* the manager before it
C12_KillNotLiveNoOp ==
  /\ \A id \in (0..(man.tracker + 1)) \ Live : EntityManager_kill(man, id) = man
  /\ (man.dying # << >> /\ Head(man.dying) \notin Live) =>
       LET m1 == [man EXCEPT !.dying = Tail(man.dying)] IN
       EntityManager_kill(m1, Head(man.dying)) = m1

\* the kill loop meets an id that is already dead while another entity lives
C12_Witness ==
  /\ pc = "kill"
  /\ man.dying # << >>
  /\ Head(man.dying) \in dead
  /\ Live # {}

\* C13: a pair taken from the collision queue is handed to Collider::collide
\* once when both ids are in the directory at that moment, and is dropped with
\* no fault and no other change when one of them is not
C13_StalePairDropped ==
  [][ TookCollision =>
        LET pair == Head(man.storage.collisions)
            m1 == [man EXCEPT !.storage.collisions = Tail(man.storage.collisions)]
            both == pair[1] \in Live /\ pair[2] \in Live
            last == resolved'[Len(resolved')]
        IN /\ Len(resolved') = Len(resolved) + 1
           /\ last.pair = pair
           /\ last.invoked = both
           /\ ~both => man' = m1 /\ fault' = NoFault
           /\ both =>
                \E ch \in CollisionChoices(man) :
                  LET r == Collider_collide(m1, EntityManager_view(m1, pair[1]).val,
                                            EntityManager_view(m1, pair[2]).val, ch)
                  IN man' = r.man /\ fault' = r.fault ]_vars

\* the collision loop has dropped a pair whose entity the kill loop removed
C13_Witness ==
  \E i \in 1..Len(resolved) :
    /\ ~resolved[i].invoked
    /\ resolved[i].pair[1] \in dead \/ resolved[i].pair[2] \in dead

SameCell(p, q) == Vec2Floor(p) = Vec2Floor(q)

\* the pairs of A and B that the collision loop of this tick has taken
PairEvents(A, B) ==
  Cardinality({i \in 1..Len(resolved) : resolved[i].pair \in {<<A, B>>, <<B, A>>}})

\* C14: when the collision loop of a tick has emptied the queue (which was
\* empty when the tick began), it has taken exactly one pair of A and B for any
\* two colliders A and B whose positions were both set to one cell during the
\* tick, and none for two colliders whose positions never shared a cell
C14_OneEventPerPair ==
  (pc = "collide" /\ man.storage.collisions = << >> /\ fault = NoFault /\ moved.clean) =>
    \A A, B \in DOMAIN declared :
      (A < B /\ "Collider" \in declared[A] /\ "Collider" \in declared[B]) =>
        /\ (\E a, b \in moved.sets : a[1] = A /\ b[1] = B /\ SameCell(a[2], b[2]))
             => PairEvents(A, B) = 1
        /\ (\A a, b \in moved.ever : a[1] = A /\ b[1] = B => ~SameCell(a[2], b[2]))
             => PairEvents(A, B) = 0


\* colliders other than entity whose stored position lies in the cell of p
OthersInCell(s, entity, p) ==
  {o \in DOMAIN s.positions : o # entity /\ is_collider(s, o) /\ SameCell(s.positions[o], p)}

\* C15: set_position(p) on a collider E appends exactly one event (E, O) for
\* each other collider O stored in the cell of p and no other event, in
\* particular none that pairs E with itself; on an entity that is no collider
\* it appends nothing; afterwards the stored position of E is p
C15_SetPositionEvents ==
  \A e \in Live : \A p \in PosInputs : \A ord \in Orders(man, {p}) :
    LET s == man.storage
        s2 == Storages_set_position(s, e, p, ord)
        old == Len(s.collisions)
        new == SubSeq(s2.collisions, old + 1, Len(s2.collisions))
        others == OthersInCell(s, e, p)
    IN /\ SubSeq(s2.collisions, 1, old) = s.collisions
       /\ s2.positions = Insert(s.positions, e, p)
       /\ IF is_collider(s, e)
            THEN /\ \A o \in others :
                      Cardinality({i \in 1..Len(new) : new[i] = <<e, o>>}) = 1
                 /\ \A i \in 1..Len(new) : new[i][1] = e /\ new[i][2] \in others
            ELSE new = << >>
       /\ \A i \in 1..Len(new) : is_collider(s, new[i][1]) /\ is_collider(s, new[i][2])


Ceil(a, b) == (a + b - 1) \div b

\* C16: a call of tick(dt) fires exactly when the accumulator plus dt is
\* strictly greater than the threshold; when it fires the new accumulator is
\* that sum less one threshold, otherwise it is the sum (so a sum equal to the
\* threshold does not fire and stays)
C16_FiresAboveThreshold ==
  [][clock'.ticks = clock.ticks + 1 =>
       LET sum == clock.timer.acc + clock'.last.val.dt
           T == clock.timer.threshold
       IN /\ clock'.last.val.fired <=> sum > T
          /\ clock'.last.val.fired => clock'.timer.acc = sum - T
          /\ ~clock'.last.val.fired => clock'.timer.acc = sum
          /\ clock'.timer.threshold = T]_vars

C16_Witness ==
  /\ clock.last.some /\ ~clock.last.val.fired
  /\ clock.last.val.acc + clock.last.val.dt = clock.timer.threshold
  /\ clock.timer.acc = clock.timer.threshold
  /\ clock.fires # << >>

\* C17 as stated: with a fixed dt, 0 < dt < T, from accumulator 0, the first
\* firing is on tick ceil(T/dt) and consecutive firings are ceil(T/dt) apart
C17_FiresEveryCeil ==
  \A d \in clock.dts :
    LET T == clock.timer.threshold
        f == clock.fires
    IN (clock.dts = {d} /\ 0 < d /\ d < T) =>
         /\ clock.ticks >= Ceil(T, d) => f # << >> /\ f[1] = Ceil(T, d)
         /\ \A i \in 1..(Len(f) - 1) : f[i + 1] - f[i] = Ceil(T, d)

\* C17: with a fixed dt, 0 < dt < T, from accumulator 0, the timer has fired
\* ceil(n*dt/T) - 1 times after n >= 1 ticks, at most once per tick; the first
\* firing is on tick floor(T/dt) + 1 and consecutive firings are floor(T/dt)
\* or ceil(T/dt) ticks apart
C17_FiringCount ==
  \A d \in clock.dts :
    LET T == clock.timer.threshold
        f == clock.fires
    IN (clock.dts = {d} /\ 0 < d /\ d < T) =>
         /\ Len(f) = Ceil(clock.ticks * d, T) - 1
         /\ f # << >> => f[1] = (T \div d) + 1
         /\ \A i \in 1..(Len(f) - 1) :
              /\ f[i + 1] > f[i]
              /\ f[i + 1] - f[i] \in {T \div d, Ceil(T, d)}

C17_Witness ==
  /\ Cardinality(clock.dts) = 1
  /\ Len(clock.fires) >= 3
  /\ clock.fires[3] - clock.fires[2] # clock.fires[2] - clock.fires[1]

\* C18: after cool_down() on a Cooldown of duration C > 0, once the dt of the
\* tick calls made since sum to C or more the accumulator is 0,
\* is_cooling_down() is false and progress() is 1; while they sum to less,
\* is_cooling_down() is true
C18_CooldownExpires ==
  LET c == clock.cooldown IN
  (clock.armed /\ c.cooldown > 0) =>
     /\ c.acc >= 0
     /\ clock.elapsed >= c.cooldown =>
          /\ c.acc = 0
          /\ ~Cooldown_is_cooling_down(c)
          /\ Cooldown_progress(c).num = Cooldown_progress(c).den
     /\ clock.elapsed < c.cooldown => Cooldown_is_cooling_down(c)

C18_Witness ==
  /\ clock.armed
  /\ clock.elapsed > clock.cooldown.cooldown
  /\ clock.cooldown.acc = 0
  /\ clock.cooldown.cooldown > 0


\* the name is bound in the property bag (None: the entity has no bag)
Bound(bag, name) == bag.some /\ name \in DOMAIN bag.val

\* C19: a get_property or set_property call (with_property and
\* with_mut_property underneath) on a name that is unbound for the entity
\* ends in the missing-property fault, and on a name bound to a value of
\* another type in the type-mismatch fault; in both cases the bag of the
\* entity is as it was before the call
C19_PropertyFaults ==
  (propCall.some /\ propCall.val.call.op \in {"get_property", "set_property"}) =>
    LET id == propCall.val.id
        c == propCall.val.call
        bag == propCall.val.bag
    IN /\ ~Bound(bag, c.name) =>
            /\ fault = MissingProperty
            /\ Lookup(man.storage.properties, id) = bag
       /\ (Bound(bag, c.name) /\ bag.val[c.name].ty # c.ty) =>
            /\ fault = PropertyTypeMismatch
            /\ Lookup(man.storage.properties, id) = bag

C19_Witness ==
  /\ propCall.some
  /\ propCall.val.call.op = "set_property"
  /\ Bound(propCall.val.bag, propCall.val.call.name)
  /\ fault = PropertyTypeMismatch

\* C20: after new_property on an entity spawned without the Properties marker
\* no fault is raised, has_property(name) is false for the entity and the
\* entity has no property table
C20_NewPropertyWithoutMarker ==
  (propCall.some /\ propCall.val.call.op = "new_property"
     /\ "Properties" \notin declared[propCall.val.id]) =>
    LET id == propCall.val.id
        v == EntityManager_view(man, id)
    IN /\ fault = NoFault
       /\ v.some
       /\ ~EntityView_has_property(man, v.val, propCall.val.call.name).ret
       /\ id \notin DOMAIN man.storage.properties

C20_Witness ==
  /\ propCall.some /\ propCall.val.call.op = "new_property"
  /\ "Properties" \notin declared[propCall.val.id]
  /\ \E o \in DOMAIN man.storage.properties : "score" \in DOMAIN man.storage.properties[o]


\* C21: request_spawn on a live entity spawned without Spawner ends in the
\* missing-component fault and leaves the manager as it was; on one spawned
\* with Spawner it raises no fault and only appends the request to the spawn
\* queue; every entity that a request created was created by the spawn loop
C21_RequestSpawnNeedsSpawner ==
  /\ \A id \in Live :
       LET v == EntityManager_view(man, id).val
           r == EntityView_request_spawn(man, v, BodyRequest)
       IN IF "Spawner" \in declared[id]
            THEN /\ r.fault = NoFault
                 /\ r.man.storage.spawn_requests =
                      Append(man.storage.spawn_requests, BodyRequest)
                 /\ r.man = [man EXCEPT !.storage.spawn_requests =
                                          r.man.storage.spawn_requests]
            ELSE /\ r.fault = MissingComponent(v.type_, "Spawner")
                 /\ r.man = man
  /\ \A id \in DOMAIN born : born[id].ophase # "direct" => born[id].phase = "spawn"

\* a request is queued by a snake head and nothing has been created for it;
\* the same call on a wall has then ended in the fault
C21_Witness ==
  /\ fault = MissingComponent("Wall", "Spawner")
  /\ Len(man.storage.spawn_requests) = 1
  /\ Len(issued) = 2 /\ Cardinality(Live) = 2


\* C22: the type list is as long as the directory, and for every live id
\* view(id).which() is the tag given to the spawn call that issued the id
C22_WhichIsSpawnTag ==
  /\ Len(man.types) = Len(man.entities)
  /\ \A id \in Live :
       /\ EntityManager_view(man, id).some
       /\ EntityView_which(EntityManager_view(man, id).val) = born[id].tag

\* an entity of another tag with a lower id has been killed
C22_Witness ==
  \E id \in Live : \E k \in dead :
    /\ k < id
    /\ born[k].tag # born[id].tag
    /\ EntityView_which(EntityManager_view(man, id).val) = born[id].tag


Ascending(s) == \A i \in 1..(Len(s) - 1) : s[i] < s[i + 1]

\* C23: while the dispatch loop of a tick runs it has invoked, in order, the
\* first idx - 1 ids of the directory as it was when the loop began, and the
\* directory is still that one; from the end of the loop on it has invoked
\* every id of that directory exactly once, in ascending order, queued kills
\* or not; a draw that returns has invoked every id of the directory once, in
\* the same order
C23_EveryLiveIdOnce ==
  fault = NoFault =>
    /\ visits.kind = "tick" =>
         /\ Ascending(visits.start)
         /\ pc = "dispatch" =>
              /\ man.entities = visits.start
              /\ visits.seen = SubSeq(visits.start, 1, idx - 1)
         /\ pc # "dispatch" => visits.seen = visits.start
    /\ visits.kind = "draw" =>
         /\ Ascending(visits.start)
         /\ visits.seen = visits.start

\* the dispatch loop is over and has invoked two entities, one of them with
\* its kill queued before the loop began
C23_Witness ==
  /\ visits.kind = "tick" /\ pc = "kill" /\ fault = NoFault
  /\ Len(visits.seen) >= 2
  /\ \E i \in 1..Len(visits.seen) : visits.seen[i] \in visits.doomed


SetterKinds ==
  {"Position", "Direction", "BodyLength", "SelfDestruct", "Scale", "Speed",
   "Animation", "Color"}

SetterValues(c) ==
  CASE c = "Position" -> PosInputs
    [] c = "Direction" -> {"Up"}
    [] c = "BodyLength" -> {3}
    [] c = "SelfDestruct" -> {2}
    [] c = "Scale" -> {ScaleDiagonal(2)}
    [] c = "Speed" -> {15}
    [] c = "Animation" -> {"Walk"}
    [] c = "Color" -> {"Snake"}

SetterCall(m, v, c, val, ord) ==
  CASE c = "Position" -> EntityView_set_position(m, v, val, ord)
    [] c = "Direction" -> EntityView_set_direction(m, v, val)
    [] c = "BodyLength" -> EntityView_set_body_length(m, v, val)
    [] c = "SelfDestruct" -> EntityView_set_self_destruct(m, v, val)
    [] c = "Scale" -> EntityView_set_scale(m, v, val)
    [] c = "Speed" -> EntityView_set_speed(m, v, val)
    [] c = "Animation" -> EntityView_set_animation(m, v, val)
    [] c = "Color" -> EntityView_set_color(m, v, val)

\* iteration orders of the positions table as far as the setter of c can
\* observe them: set_position scans the colliders stored in the cell of val
SetterOrders(m, c, val) ==
  IF c = "Position"
    THEN Perms({o \in (DOMAIN m.storage.positions) \cap (DOMAIN m.storage.colliders) :
                  Vec2Floor(m.storage.positions[o]) = Vec2Floor(val)})
    ELSE {<< >>}

\* the tables of s2 are those of s but for the entry of id in the table of c
SameButFor(s, s2, id, c) ==
  /\ \A k \in Components \ {c} : Table(s2, k) = Table(s, k)
  /\ DOMAIN Table(s2, c) = DOMAIN Table(s, c)
  /\ \A o \in DOMAIN Table(s, c) \ {id} : Table(s2, c)[o] = Table(s, c)[o]

\* C24: for a live entity that has the component, the setter followed by the
\* getter returns exactly the value set, and the setter changes neither another
\* component of the entity, nor a component of another entity, nor the
\* directory; the stored position of a live entity is one that was set for it
C24_SetThenGet ==
  /\ \A id \in Live : \A c \in SetterKinds :
       HasEntry(id, c) =>
         \A val \in SetterValues(c) :
           \A ord \in SetterOrders(man, c, val) :
             LET v == EntityManager_view(man, id).val
                 r == SetterCall(man, v, c, val, ord)
                 g == GetterCall(r.man, v, c)
             IN /\ r.fault = NoFault /\ g.fault = NoFault
                /\ g.ret = val
                /\ g.man = r.man
                /\ r.man.entities = man.entities
                /\ r.man.types = man.types
                /\ r.man.tracker = man.tracker
                /\ SameButFor(man.storage, r.man.storage, id, c)
  /\ \A id \in Live :
       HasEntry(id, "Position") => <<id, man.storage.positions[id]>> \in moved.ever

\* a position has been set and is stored, next to an entity left at the origin
C24_Witness ==
  \E id, o \in Live :
    /\ id # o
    /\ HasEntry(id, "Position") /\ HasEntry(o, "Position")
    /\ man.storage.positions[id] \in PosInputs
    /\ man.storage.positions[o] = Vec3Default


\* C25: a call of tick takes off exactly one threshold when it fires: after a
\* call whose sum of accumulator and dt is more than two thresholds the
\* accumulator is still above the threshold; a call that finds the accumulator
\* above the threshold fires whatever dt is, also 0; a call with dt = 0 that
\* finds it at or below the threshold does not fire
C25_CarryOver ==
  [][clock'.ticks = clock.ticks + 1 =>
       LET T == clock.timer.threshold
           dt == clock'.last.val.dt
           sum == clock.timer.acc + dt
           fired == clock'.last.val.fired
       IN /\ fired => clock'.timer.acc = sum - T
          /\ sum > 2 * T => fired /\ clock'.timer.acc > T
          /\ clock.timer.acc > T => fired
          /\ (clock.timer.acc <= T /\ dt = 0) => ~fired]_vars

\* a call with dt = 0 has fired on what an earlier call left over
C25_Witness ==
  /\ clock.last.some
  /\ clock.last.val.dt = 0 /\ clock.last.val.fired
  /\ clock.last.val.acc > clock.timer.threshold
  /\ clock.timer.acc <= clock.timer.threshold

\* the accumulators on which C26 is tried
OvershootAccs == {50 * a : a \in 0..12}

\* C26 as stated: for the timer at hand some call of tick, from some value of
\* the accumulator, returns false and leaves the accumulator above the
\* threshold (progress above 1)
C26_OvershootAfterMiss ==
  \E acc \in OvershootAccs : \E dt \in ClockDtInputs :
    LET r == Threshold_tick([clock.timer EXCEPT !.acc = acc], dt)
    IN ~r.fired /\ r.t.acc > r.t.threshold

\* C26: after a call of tick that returned false the accumulator is at most the
\* threshold (progress at most 1); the accumulator is above the threshold right
\* after a call that fired when its sum was more than two thresholds
C26_OvershootOnlyAfterFiring ==
  clock.last.some =>
    LET T == clock.timer.threshold
        sum == clock.last.val.acc + clock.last.val.dt
    IN /\ ~clock.last.val.fired => clock.timer.acc <= T
       /\ clock.timer.acc > T => clock.last.val.fired /\ sum > 2 * T
       /\ sum > 2 * T => clock.last.val.fired /\ clock.timer.acc > T

\* progress is above 1 right after a call with a large dt that fired
C26_Witness ==
  /\ clock.last.some /\ clock.last.val.fired
  /\ clock.last.val.dt > 2 * clock.timer.threshold
  /\ clock.timer.acc > clock.timer.threshold


\* C27: when tick returns, the spawn queue and the collision queue are empty
C27_QueuesEmptyAtReturn ==
  [][(pc = "collide" /\ pc' = "idle") =>
       /\ man'.storage.spawn_requests = << >>
       /\ man'.storage.collisions = << >>]_vars

\* the collision loop has taken an event sent for an entity that the spawn loop
\* of this tick created, and both queues are empty
C27_Witness ==
  /\ pc = "collide" /\ fault = NoFault
  /\ man.storage.spawn_requests = << >> /\ man.storage.collisions = << >>
  /\ \E i \in 1..Len(resolved) :
       LET id == resolved[i].pair[1] IN
       /\ id \in DOMAIN born
       /\ born[id].phase = "spawn" /\ born[id].tick = tickNo

\* ------------------------------------------------------------------ C30
\* the ids a spawn with the component list components reports, in the order
\* ord of the positions table: the colliders stored in the origin cell when
\* the marker comes before Position, none otherwise
SpawnReports(m, components, ord) ==
  IF SpawnScan(components) = {} THEN << >>
  ELSE SelectSeq(ord, LAMBDA other :
         /\ other # m.tracker
         /\ other \in DOMAIN m.storage.positions
         /\ other \in DOMAIN m.storage.colliders
         /\ Vec2Floor(m.storage.positions[other]) = Vec2Floor(Vec3Default))

C28_QueuedKillWaits ==
  [][ /\ pc \in {"spawn", "collide"} => Live \subseteq Range(man'.entities)
      /\ (pc = "idle" /\ visits'.kind = "draw" /\ visits' # visits /\ fault' = NoFault)
           => (Range(man.dying) \cap Live) \subseteq visits'.drawn
      /\ (pc = "collide" /\ pc' = "collide" /\ man.storage.collisions # << >>
            /\ Range(man.dying) \cap {Head(man.storage.collisions)[1],
                                      Head(man.storage.collisions)[2]} # {}
            /\ {Head(man.storage.collisions)[1], Head(man.storage.collisions)[2]}
                  \subseteq Live)
           => resolved'[Len(resolved')].invoked
      /\ (pc = "dispatch" /\ pc' = "kill")
           => \A id \in visits.doomed \cap Range(visits.start) :
                Cardinality({i \in DOMAIN visits.seen : visits.seen[i] = id}) = 1
      /\ (pc = "kill" /\ pc' = "spawn") => visits.doomed \cap Range(man'.entities) = {}
    ]_vars

\* the kill loop of a tick has removed a fruit whose kill the collision loop of
\* the tick before had queued on a first pair, which a second pair of that
\* loop still named, and which was drawn and ticked in between
C28_Witness ==
  /\ pc = "spawn" /\ tickNo >= 2 /\ fault = NoFault
  /\ \E id \in visits.doomed :
       /\ id \in visits.drawn
       /\ id \in Range(visits.seen)
       /\ id \in dead /\ id \notin Live
       /\ born[id].tag = "Fruit"

\* ------------------------------------------------------------------ C29
\* C29 as stated: the collision loop of a tick reaches an empty queue after
\* finitely many pairs although a handler can send into the queue. On finite
\* runs: the loop is never again in a state of the manager that it has been in
\* since a handler first sent into the queue (from such a state the same
\* iterations can be taken once more, and so without end)
C29_DrainTerminates ==
  ~(pc = "collide" /\ fault = NoFault /\ mark.some /\ ~mark.val.fresh /\ mark.val.man = man)

\* ------------------------------------------------------------- input
InputHolders == DOMAIN man.storage.keyboards

\* the first tick whose input loops found e with an Input; for an entity no
\* input loop has met yet, the next tick
FirstDrain(e) == IF e \in DOMAIN input.first THEN input.first[e] ELSE tickNo + 1

KeysRead(e) == IF e \in DOMAIN input.read THEN input.read[e] ELSE << >>

\* the keys taken by the input loops since e has its Input, in arrival order
RECURSIVE KeysSince(_, _)
KeysSince(d, t) ==
  IF d = << >> THEN << >>
  ELSE (IF Head(d).tick >= t THEN <<Head(d).key>> ELSE << >>) \o KeysSince(Tail(d), t)

\* the last pointer position taken by the input loops since e has its Input
PointerSince(e) ==
  IF input.pointer.some /\ input.pointer.val.tick >= FirstDrain(e)
    THEN input.pointer.val.pos ELSE Vec2Default

\* get_key on e gives the head of its queue and leaves the others' queues alone
GetKeyTakesHead(e) ==
  LET kb == man.storage.keyboards[e]
      r == EntityView_get_key(man, EntityManager_view(man, e).val)
  IN /\ r.fault = NoFault
     /\ r.ret = (IF kb.keys = << >> THEN None ELSE Some(Head(kb.keys)))
     /\ r.man.storage.keyboards =
          [man.storage.keyboards EXCEPT
             ![e].keys = IF kb.keys = << >> THEN << >> ELSE Tail(kb.keys)]

\* the input loops of a tick append every key to every keyboard of the moment
FanOut ==
  (pc = "idle" /\ pc' = "dispatch") =>
    /\ DOMAIN man'.storage.keyboards = InputHolders
    /\ \A e \in InputHolders :
         man'.storage.keyboards[e].keys =
           man.storage.keyboards[e].keys \o man.keystrokes

\* C31 as stated: the input loops append every key to the queue of every
\* entity that has an Input at that moment, get_key gives each entity its own
\* keys in arrival order, one per call, whatever the others have read, and
\* get_mouse gives the last pointer position the input loops have taken
C31_FanOutAndLatestPointer ==
  [][/\ FanOut
     /\ \A e \in InputHolders \cap Live :
          /\ GetKeyTakesHead(e)
          /\ KeysRead(e) \o man.storage.keyboards[e].keys
               = KeysSince(input.drained, FirstDrain(e))
          /\ input.pointer.some =>
               EntityView_get_mouse(man, EntityManager_view(man, e).val).ret
                 = input.pointer.val.pos]_vars

\* C31, amended: as above for the keys; get_mouse gives the last pointer
\* position the input loops have taken since the entity has its Input, and
\* the default position when there is none
C31_FanOutAndPointerSince ==
  [][/\ FanOut
     /\ \A e \in InputHolders \cap Live :
          /\ GetKeyTakesHead(e)
          /\ KeysRead(e) \o man.storage.keyboards[e].keys
               = KeysSince(input.drained, FirstDrain(e))
          /\ LET r == EntityView_get_mouse(man, EntityManager_view(man, e).val)
             IN r.fault = NoFault /\ r.ret = PointerSince(e)]_vars

\* two entities got the same two keys, one has read the first and the other
\* none, and both have the pointer position the input loops took
C31_Witness ==
  \E e, o \in InputHolders \cap Live :
    /\ e # o
    /\ Len(KeysRead(e)) = 1 /\ KeysRead(o) = << >>
    /\ Len(man.storage.keyboards[o].keys) = 2
    /\ man.storage.keyboards[o].keys[1] # man.storage.keyboards[o].keys[2]
    /\ man.storage.keyboards[e].keys = Tail(man.storage.keyboards[o].keys)
    /\ input.pointer.some
    /\ man.storage.keyboards[e].mouse_pos = input.pointer.val.pos
    /\ man.storage.keyboards[o].mouse_pos = input.pointer.val.pos

\* C32: an entity holds or has read exactly as many keys as the input loops
\* have taken since it has its Input: a key taken before it was spawned, with
\* or without another entity to get it, never reaches it, and until an input
\* loop has met it get_key gives it nothing
C32_EarlierKeysDiscarded ==
  /\ man.keystrokes = << >> \/ pc = "idle"
  /\ \A e \in InputHolders \cap Live :
       /\ Len(KeysRead(e)) + Len(man.storage.keyboards[e].keys)
            = Cardinality({i \in DOMAIN input.drained :
                             input.drained[i].tick >= FirstDrain(e)})
       /\ e \notin DOMAIN input.first =>
            EntityView_get_key(man, EntityManager_view(man, e).val).ret = None

\* a key was taken while no entity had an Input; an entity spawned later has met
\* a later input loop and has no key
C32_Witness ==
  \E e \in InputHolders \cap Live :
    /\ input.drained # << >>
    /\ e \in DOMAIN input.first
    /\ \A i \in DOMAIN input.drained :
         /\ input.drained[i].tick < input.first[e]
         /\ \A o \in DOMAIN input.first : input.first[o] > input.drained[i].tick
    /\ man.storage.keyboards[e].keys = << >>
    /\ KeysRead(e) = << >>

\* ------------------------------------------------------------- property bag
\* get_property::<ty>(name) on the entity id, now
GetProperty(id, name, ty) ==
  EntityView_get_property(man, EntityManager_view(man, id).val, name, ty)

\* C33: new_property on a bound name replaces the binding by the new value,
\* of whatever type: get_property with the new type returns it and with another
\* type ends in the type-mismatch fault. set_property on an unbound name, or on
\* a name bound to a value of another type, faults and leaves the bag as it
\* was; otherwise the binding keeps its type and get_property of that type
\* returns the value set
C33_RebindAndSet ==
  propCall.some =>
    LET id == propCall.val.id
        c == propCall.val.call
        bag == propCall.val.bag
        now == Lookup(man.storage.properties, id)
    IN /\ (c.op = "new_property" /\ Bound(bag, c.name)) =>
            /\ fault = NoFault
            /\ now = Some(Insert(bag.val, c.name, c.value))
            /\ \A t \in PropertyTypes :
                 LET g == GetProperty(id, c.name, t)
                 IN IF t = c.value.ty
                      THEN g.fault = NoFault /\ g.ret = Some(c.value.val)
                      ELSE g.fault = PropertyTypeMismatch
       /\ c.op = "set_property" =>
            IF ~Bound(bag, c.name)
              THEN fault = MissingProperty /\ now = bag
            ELSE IF bag.val[c.name].ty # c.ty
              THEN fault = PropertyTypeMismatch /\ now = bag
            ELSE /\ fault = NoFault
                 /\ now = Some(Insert(bag.val, c.name, [ty |-> c.ty, val |-> c.value]))
                 /\ GetProperty(id, c.name, c.ty).ret = Some(c.value)
                 /\ GetProperty(id, c.name, c.ty).fault = NoFault

\* a name bound to an i32, which set_property had given the value 7, has just
\* been bound to an f32
C33_Witness ==
  /\ propCall.some /\ propCall.val.call.op = "new_property"
  /\ Bound(propCall.val.bag, propCall.val.call.name)
  /\ propCall.val.bag.val[propCall.val.call.name].ty = "i32"
  /\ propCall.val.call.value.ty = "f32"
  /\ propCall.val.bag.val[propCall.val.call.name].val = 7

\* C34: remove_property(name) raises no fault and leaves the manager as it was
\* but for the binding of that name in the bag of that entity, which is gone:
\* has_property(name) is false afterwards, nothing changes when the name was
\* unbound or the entity has no bag, and the other names of the entity and the
\* bags of the other entities are as before
C34_RemoveProperty ==
  [][(propCall'.some /\ propCall'.val.call.op = "remove_property") =>
       LET id == propCall'.val.id
           name == propCall'.val.call.name
           bags == man.storage.properties
       IN /\ fault' = NoFault
          /\ man' = [man EXCEPT !.storage.properties =
                       IF id \in DOMAIN bags
                         THEN [bags EXCEPT ![id] = Remove(bags[id], name)]
                         ELSE bags]
          /\ ~EntityView_has_property(man', EntityManager_view(man', id).val, name).ret
          /\ (id \notin DOMAIN bags \/ name \notin DOMAIN bags[id]) => man' = man]_vars

\* a bound name has just been removed from a bag that holds another name,
\* while another entity has the removed name bound
C34_Witness ==
  /\ propCall.some /\ propCall.val.call.op = "remove_property"
  /\ Bound(propCall.val.bag, propCall.val.call.name)
  /\ DOMAIN man.storage.properties[propCall.val.id] # {}
  /\ \E o \in DOMAIN man.storage.properties :
       /\ o # propCall.val.id
       /\ propCall.val.call.name \in DOMAIN man.storage.properties[o]

\* ------------------------------------------------------------- borrows
\* the step is access_timer on the view of e with a callback that makes the
\* call c on the view of o
InnerCallStep(e, o, c) ==
  View(e, [op |-> "access_timer",
           f |-> [fn |-> "call", view |-> EntityManager_view(man, o).val, call |-> c]],
       << >>, calls + 1)

\* no borrow is left: the field is clear and a getter on e does not meet one
Released(m, e) ==
  /\ m.borrow = 0
  /\ EntityView_get_position(m, EntityManager_view(m, e).val).fault # AlreadyBorrowed
  /\ ViewCall(m, EntityManager_view(m, e).val, [op |-> "get_position"], << >>).fault
       # AlreadyBorrowed

\* C35 as stated: a call on any view made by the callback of access_timer
\* ends in the borrow fault, whatever the call and the entity, and once
\* access_timer has returned no borrow is held
C35_EveryInnerCallFaults ==
  [][\A e, o \in Range(man.entities) : \A c \in InnerOps :
       (InnerCallStep(e, o, c) /\ e \in DOMAIN man.storage.timers) =>
         /\ fault' = AlreadyBorrowed
         /\ Released(man', e)]_vars

\* C35, amended: a call made by the callback of access_timer ends in the
\* borrow fault, with the storages as they were, unless it is kill or which,
\* which do not borrow: kill queues the id of its view and which returns the
\* tag, without fault; once access_timer has returned no borrow is held
C35_BorrowingInnerCallFaults ==
  [][\A e, o \in Range(man.entities) : \A c \in InnerOps :
       (InnerCallStep(e, o, c) /\ e \in DOMAIN man.storage.timers) =>
         /\ Released(man', e)
         /\ CASE c.op = "kill" -> fault' = NoFault /\ man' = [man EXCEPT !.dying = Append(@, o)]
              [] c.op = "which" -> fault' = NoFault /\ man' = man
              [] OTHER -> fault' = AlreadyBorrowed /\ man' = man]_vars

\* the callback of access_timer on one entity has called get_position on the
\* view of another, which has a Position, and the process has ended
C35_Witness ==
  /\ fault = AlreadyBorrowed
  /\ \E e, o \in Live :
       /\ e # o
       /\ e \in DOMAIN man.storage.timers
       /\ o \in DOMAIN man.storage.positions
  /\ man.borrow = 0

\* ------------------------------------------------------------- spawned timers
\* the step is access_timer(f) on the view of e
TimerStep(e, f) == View(e, [op |-> "access_timer", f |-> f], << >>, calls + 1)

\* timer.tick(dt) on the Timer of e, now
TickNow(e, dt) ==
  EntityView_access_timer(man, EntityManager_view(man, e).val, [fn |-> "tick", dt |-> dt])

\* C36: the Timer that spawn makes has accumulator 0 and threshold 0, and the
\* threshold stays 0 until set_threshold is called on it; while it is 0 a
\* tick(dt) with dt > 0 returns true, a tick(0) from accumulator 0 returns
\* false, a tick adds dt to the accumulator, and no step lowers the accumulator
C36_ZeroThresholdFires ==
  [][\A e \in Range(man'.entities) \cap DOMAIN man'.storage.timers :
       LET new == man'.storage.timers[e] IN
       IF e \notin DOMAIN man.storage.timers
         THEN new.acc = 0 /\ new.threshold = 0
         ELSE LET old == man.storage.timers[e] IN
              /\ (\A th \in {STEP} : ~TimerStep(e, [fn |-> "set_threshold", threshold |-> th]))
                   => new.threshold = old.threshold
              /\ old.threshold = 0 =>
                   /\ \A dt \in TimerDtInputs :
                        LET r == TickNow(e, dt) IN
                        /\ r.fault = NoFault
                        /\ dt > 0 => r.ret
                        /\ (dt = 0 /\ old.acc = 0) => ~r.ret
                        /\ r.man.storage.timers[e].acc = old.acc + dt
                        /\ TimerStep(e, [fn |-> "tick", dt |-> dt]) => man' = r.man
                   /\ new.threshold = 0 => new.acc >= old.acc]_vars

\* a spawned Timer that was never given a threshold has been ticked twice with
\* a positive dt
C36_Witness ==
  \E e \in Live \cap DOMAIN man.storage.timers :
    /\ man.storage.timers[e].threshold = 0
    /\ man.storage.timers[e].acc = 200


\* ------------------------------------------------ the tutorial's hallway
\* C37: the logic of the tutorial room goes through three stages. Until a call
\* of it finds a move signal of the snake, its threshold is the greatest
\* duration and nothing is sent. The call that finds the first move signal
\* sets the threshold to 3000 ms and the accumulator to zero, so that from then
\* on the accumulator is the time given to that call and to the calls after
\* it. The call at which that time first exceeds 3000 ms sends the one
\* hallway signal and puts the threshold back to the greatest duration: no
\* second signal is ever sent.
C37_HallwayAfterFirstMove ==
  LET t == world.tut IN
  /\ t.tx_hall <= 1
  /\ ~world.observed =>
       /\ ~t.moved
       /\ t.threshold = [acc |-> world.before, threshold |-> DURATION_MAX]
       /\ t.tx_hall = 0
  /\ world.observed /\ world.since <= HallDelay =>
       /\ t.moved
       /\ t.threshold = [acc |-> world.since, threshold |-> HallDelay]
       /\ t.tx_hall = 0
  /\ world.observed /\ world.since > HallDelay =>
       /\ t.moved
       /\ t.threshold.threshold = DURATION_MAX
       /\ t.tx_hall = 1

\* the hallway signal was sent, time had passed before the first move, and the
\* snake has moved again since
C37_Witness ==
  /\ world.tut.tx_hall = 1
  /\ world.before > 0
  /\ world.tut.snek_move_rx > 0
  /\ world.since > HallDelay + 1


\* ------------------------------------------------ the fruit of a room
\* the step takes a snake-head/fruit pair of the room's fruit from the
\* collision queue and the handler returns
RoomFruitCollides ==
  /\ pc = "collide" /\ fault = NoFault /\ fault' = NoFault
  /\ world.fruit.some
  /\ RespawnFruit(man).some
  /\ RespawnFruit(man).val.id = world.fruit.val.id
  /\ man' # man

RoomFruitBag(m) == m.storage.properties[world.fruit.val.id]

\* the messages sent so far on the channel whose sender the room's fruit
\* holds in the property name
RoomFruitSent(m, name) == m.channels[RoomFruitBag(m)[name].val]

\* the snake-head/fruit pairs of the room's fruit handled so far: each one
\* has sent on eat_tx or on kill_tx
RoomFruitCollisions == RoomFruitSent(man, "eat_tx") + RoomFruitSent(man, "kill_tx")

\* the cells fruit::respawn can choose inside the bound of the room's fruit
RoomFruitTargets ==
  {[x |-> RoomFruitBag(man)["bound.pos"].val.x - o.x,
    y |-> RoomFruitBag(man)["bound.pos"].val.y - o.y, z |-> 0] :
     o \in RespawnOffsets(RoomFruitBag(man)["bound.dim"].val)}

\* the step relocates the fruit and signals eat_tx, and requests no kill
RoomFruitRelocated ==
  LET id == world.fruit.val.id IN
  /\ man'.storage.positions[id] \in RoomFruitTargets
  /\ RoomFruitSent(man', "eat_tx") = RoomFruitSent(man, "eat_tx") + 1
  /\ RoomFruitSent(man', "kill_tx") = RoomFruitSent(man, "kill_tx")
  /\ man'.dying = man.dying

\* the step requests the kill of the fruit and sends on kill_tx, and neither
\* relocates the fruit nor signals eat_tx
RoomFruitKilled ==
  LET id == world.fruit.val.id IN
  /\ man'.dying = Append(man.dying, id)
  /\ RoomFruitSent(man', "kill_tx") = RoomFruitSent(man, "kill_tx") + 1
  /\ RoomFruitSent(man', "eat_tx") = RoomFruitSent(man, "eat_tx")
  /\ man'.storage.positions[id] = man.storage.positions[id]
  /\ man'.storage.collisions = Tail(man.storage.collisions)
  /\ RoomFruitBag(man')["respawns"].val = 0

\* a fruit made with respawns = n >= 0: its first n collisions relocate it,
\* the counter going down by one each time, and collision n + 1 kills it
RoomFruitBounded ==
  LET n == world.fruit.val.respawns
      k == RoomFruitCollisions + 1
  IN RoomFruitCollides /\ n >= 0 /\ k <= n + 1 =>
       /\ RoomFruitBag(man)["respawns"].val = n - (k - 1)
       /\ IF k <= n
            THEN /\ RoomFruitRelocated
                 /\ RoomFruitBag(man')["respawns"].val = n - k
            ELSE RoomFruitKilled

\* a fruit made with respawns = -1: every collision relocates it
RoomFruitUnlimited ==
  RoomFruitCollides /\ world.fruit.val.respawns = -1 => RoomFruitRelocated

\* C38: a bounded fruit made with respawns = n >= 0 is relocated on each of
\* its first n snake-head collisions, the counter decreasing by one each
\* time, and on collision n + 1 requests its own kill and sends on kill_tx
\* without relocating or signalling eat_tx; made with respawns = -1 it is
\* relocated on every collision and never requests its kill.
C38_RespawnsThenKill == [][RoomFruitBounded /\ RoomFruitUnlimited]_vars

\* the part of C38 on fruits made with respawns >= 0, which holds
RoomFruitBoundedHolds == [][RoomFruitBounded]_vars


\* ------------------------------------------------ the hallway of a room
\* the step is a call of open_hallway on the room of the game
HallwayCalled ==
  /\ world.room.some
  /\ world'.hallway.calls = world.hallway.calls + 1
  /\ fault' = NoFault

\* the cells of the gap on a side of a room
HoleCells(room, side, hole_size) ==
  LET h == HoleOf(room, side, hole_size)
  IN {[x |-> x, y |-> y] : x \in h.xs..h.xe, y \in h.ys..h.ye}

TypeIn(m, id) == EntityManager_view(m, id).val.type_

\* the walls among the parts that stand in the cells
WallsIn(m, parts, cells) ==
  {id \in Range(parts) \cap Range(m.entities) :
     /\ TypeIn(m, id) = "Wall"
     /\ Vec2Floor(m.storage.positions[id]) \in cells}

\* the triggers among the parts that stand in cell c
TriggersAt(m, parts, c) ==
  {id \in Range(parts) \cap Range(m.entities) :
     /\ TypeIn(m, id) = "Trigger"
     /\ Vec2Floor(m.storage.positions[id]) = c}

\* t is a trigger for the snake head that sends on the channel tx
NotifiesOn(m, t, tx) ==
  /\ m.storage.properties[t]["predicate"].val = "SnakeHead"
  /\ m.storage.properties[t]["notify"].val = tx

\* the first call: the kill of every wall in the three gaps is requested and
\* of nothing else, a trigger stands in every cell of the far gap of the
\* hallway and of the gap of the room, those are the entities there are more,
\* two channels are new, and the game keeps their listeners
HallwayOpened ==
  LET room == world.room.val
      hall == room.hall.val
      d == room.hall_direction
      w == room.hall_width
      near == Len(man.channels) + 1
      far == Len(man.channels) + 2
      room2 == world'.room.val
      hall2 == room2.hall.val
      broken == WallsIn(man, hall.parts, HoleCells(hall, d, w))
                  \cup WallsIn(man, hall.parts, HoleCells(hall, Direction_reverse(d), w))
                  \cup WallsIn(man, room.parts, HoleCells(room, d, w))
      made == Range(man'.entities) \ Range(man.entities)
  IN /\ room2.hall_open
     /\ world'.hallway.ret = Some(<<near, far>>)
     /\ man'.channels = man.channels \o <<0, 0>>
     /\ world'.game.pan_to_hall_trigger = Some(near)
     /\ world'.game.pan_to_room_trigger = Some(far)
     /\ Cardinality(broken) = 3 * w
     /\ Len(man'.dying) = Len(man.dying) + 3 * w
     /\ SubSeq(man'.dying, 1, Len(man.dying)) = man.dying
     /\ Range(man'.dying) \ Range(man.dying) = broken
     /\ Cardinality(made) = 2 * w
     /\ \A c \in HoleCells(room, d, w) :
          \E t \in made : /\ TriggersAt(man', room2.parts, c) = {t}
                          /\ NotifiesOn(man', t, near)
     /\ \A c \in HoleCells(hall, d, w) :
          \E t \in made : /\ TriggersAt(man', hall2.parts, c) = {t}
                          /\ NotifiesOn(man', t, far)
     /\ \A c \in HoleCells(hall, Direction_reverse(d), w) :
          TriggersAt(man', hall2.parts, c) = {}

\* a later call: None, and the manager, the room and the listeners of the
\* game are as they were
HallwayLeftAlone ==
  /\ world'.hallway.ret = None
  /\ man' = man
  /\ issued' = issued /\ dead' = dead
  /\ world'.room = world.room
  /\ world'.game.pan_to_hall_trigger = world.game.pan_to_hall_trigger
  /\ world'.game.pan_to_room_trigger = world.game.pan_to_room_trigger

\* C39: open_hallway takes effect at most once per room: the first call
\* breaks the walls of the gaps, places the triggers and returns the two
\* listeners, of the gap of the room first and of the far end of the hallway
\* second; every later call returns None, spawns nothing, requests no kill
\* and makes no listener
C39_OpensOnce ==
  [][HallwayCalled =>
       IF world.room.val.hall_open THEN HallwayLeftAlone ELSE HallwayOpened]_vars

\* open_hallway has been called on the open hallway of a room, whose walls
\* have been removed since, and has returned None
C39_Witness ==
  /\ world.room.some /\ world.room.val.hall_open
  /\ world.hallway.calls >= 2 /\ world.hallway.ret = None
  /\ world.game.pan_to_hall_trigger = Some(1)
  /\ world.game.pan_to_room_trigger = Some(2)
  /\ tickNo >= 1 /\ man.dying = << >>
  /\ fault = NoFault


\* ------------------------------------------------ the triggers of a gap
\* the listener the game holds for "the head has entered the hallway"
HallListener == world.game.pan_to_hall_trigger

\* the step sends on a channel
HallNotified == \E i \in DOMAIN man.channels : man'.channels[i] # man.channels[i]

\* a step that sends on a channel is a pass of the collision loop over a pair
\* of a trigger and the snake head; it sends one message, on the channel of
\* the trigger, and requests the kill of the trigger
HallTriggerNotifies ==
  HallNotified =>
    /\ pc = "collide" /\ man.storage.collisions # << >>
    /\ \E t \in Range(Head(man.storage.collisions)) :
       \E e \in Range(Head(man.storage.collisions)) :
         /\ TypeIn(man, t) = "Trigger" /\ TypeIn(man, e) = "SnakeHead"
         /\ man.storage.properties[t]["predicate"].val = "SnakeHead"
         /\ man'.channels =
              [man.channels EXCEPT ![man.storage.properties[t]["notify"].val] = @ + 1]
         /\ man'.dying = Append(man.dying, t)

\* the part of C40 on the single trigger, which holds: it notifies only for
\* the snake head, once, and requests its own kill when it does
HallTriggersHold == [][HallTriggerNotifies]_vars

\* C40: after open_hallway the listener for "the head has entered the
\* hallway" gets at most one notification while the room lives, however the
\* head moves through the gap, and the game generates at most one next room
C40_OneNotification ==
  HallListener.some =>
    /\ man.channels[HallListener.val] <= 1
    /\ world.game.next_rooms <= 1
====
